---- MODULE Spec2Model ----
(***************************************************************************)
(* A model of the MediScan frontend: the API client (src/lib/api.js), the  *)
(* auth context, the routing guard, the login and register pages and the   *)
(* diagnosis page.  Strings are TLA+ strings (TLC reads them as sequences   *)
(* of characters); JavaScript null and undefined are the values Null and   *)
(* Undefined.                                                              *)
(***************************************************************************)
EXTENDS Integers, Sequences, FiniteSets, TLC

VARIABLES
    localStorage,     \* browser local storage: key -> [has, text]
    currentUser,      \* AuthProvider: useState(null)
    loading,          \* AuthProvider: useState(true)
    authMounted,      \* AuthProvider's mount effect has run
    path,             \* router: location.pathname
    locState,         \* router: location.state, [from, message]
    view,             \* what the matched route last rendered
    loginIsLoading,   \* LoginPage: isLoading
    loginError,       \* LoginPage: error
    successMessage,   \* LoginPage: successMessage
    regIsLoading,     \* RegisterPage: isLoading
    regError,         \* RegisterPage: error
    regForm,          \* RegisterPage: email, password, confirmPassword
    uploadedImage,    \* DiagnosisPage: uploadedImage, the preview
    imageFile,        \* DiagnosisPage: imageFile
    analysisResults,  \* DiagnosisPage: analysisResults
    isAnalyzing,      \* DiagnosisPage: isAnalyzing
    diagError,        \* DiagnosisPage: error
    readers,          \* DiagnosisPage: the FileReader reads that have not ended
    calls,            \* every invocation of the API client that is followed here
    effectsRun,       \* the mount effects of the page shown have run
    analyses,         \* HistoryPage: analyses, the imageUrl of each entry
    imgSrc,           \* HistoryPage: the src of the <img> of each entry
    histLoading,      \* HistoryPage: loading
    histError,        \* HistoryPage: error
    analysisCount,    \* DashboardPage: analysisCount
    dashIsLoading,    \* DashboardPage: isLoading
    dashInterval,     \* DashboardPage: the interval of its effect
    status,           \* ApiStatusIndicator: status
    statusInterval,   \* ApiStatusIndicator: the interval of its effect
    xhrs,             \* every HTTP request sent so far, in order
    lastOp            \* the handler that ran last

authVars == <<localStorage, currentUser, loading, authMounted>>
routeVars == <<path, locState, view>>
loginVars == <<loginIsLoading, loginError, successMessage>>
regVars == <<regIsLoading, regError, regForm>>
diagVars == <<uploadedImage, imageFile, analysisResults, isAnalyzing, diagError, readers>>
histVars == <<analyses, imgSrc, histLoading, histError>>
dashVars == <<analysisCount, dashIsLoading, dashInterval>>
statusVars == <<status, statusInterval>>
dataVars == <<calls, effectsRun, histVars, dashVars, statusVars>>
vars == <<localStorage, currentUser, loading, authMounted, path, locState,
          view, loginIsLoading, loginError, successMessage, regIsLoading, regError, regForm,
          uploadedImage, imageFile, analysisResults, isAnalyzing, diagError, readers,
          calls, effectsRun, analyses, imgSrc, histLoading, histError, analysisCount,
          dashIsLoading, dashInterval, status, statusInterval,
          xhrs, lastOp>>

-----------------------------------------------------------------------------
(* Bounds of the model *)

MaxRequests == 2     \* HTTP requests sent in one behaviour
MaxReads == 1        \* FileReader reads of the diagnosis page that have not ended
MaxCalls == 2        \* invocations of the API client followed in one behaviour
MaxHistoryRequests == 3   \* requests in the log up to which getHistory sends one more

-----------------------------------------------------------------------------
(* JavaScript values *)

Null == "<null>"
Undefined == "<undefined>"
NoHeader == "<no header>"

\* JavaScript truthiness of a string-or-null-or-undefined value
Truthy(v) == v \notin {Null, Undefined, ""}

\* a || b
Or(a, b) == IF Truthy(a) THEN a ELSE b

Char(s, i) == SubSeq(s, i, i)

\* String.prototype.includes
Includes(s, sub) ==
    \E i \in 1..(Len(s) - Len(sub) + 1) : SubSeq(s, i, i + Len(sub) - 1) = sub

AllIn(s, lo, hi, C) == \A k \in lo..hi : Char(s, k) \in C

Lower == {"a","b","c","d","e","f","g","h","i","j","k","l","m",
          "n","o","p","q","r","s","t","u","v","w","x","y","z"}
Upper == {"A","B","C","D","E","F","G","H","I","J","K","L","M",
          "N","O","P","Q","R","S","T","U","V","W","X","Y","Z"}
Digit == {"0","1","2","3","4","5","6","7","8","9"}
Alnum == Lower \cup Upper \cup Digit

\* /^[a-zA-Z0-9._%+-]+@[a-zA-Z0-9.-]+\.[a-zA-Z]{2,}$/.test(s)
EMAIL_REGEX(s) ==
    \E a \in 1..Len(s), d \in 1..Len(s) :
        /\ Char(s, a) = "@"
        /\ Char(s, d) = "."
        /\ a >= 2
        /\ AllIn(s, 1, a - 1, Alnum \cup {".", "_", "%", "+", "-"})
        /\ d >= a + 2
        /\ AllIn(s, a + 1, d - 1, Alnum \cup {".", "-"})
        /\ Len(s) - d >= 2
        /\ AllIn(s, d + 1, Len(s), Lower \cup Upper)

\* What lastOp records of a handler: its name, whether it sent a request, the
\* file it was given, and for the completion of a request whether the page's
\* race was already settled (late) and what the promise of the API client
\* settled to
Op(name) ==
    [name |-> name, sent |-> FALSE, late |-> FALSE, resolved |-> FALSE,
     token |-> Undefined, user |-> Undefined, file |-> Undefined]

Completion(name, x, p) ==
    [name |-> name, sent |-> FALSE, late |-> (x.race = "settled"), resolved |-> p.resolved,
     token |-> p.token, user |-> p.user, file |-> Undefined]

-----------------------------------------------------------------------------
(* Local storage and JSON *)

JWT_STORAGE_KEY == "mediscan_auth_token"
USER_STORAGE_KEY == "mediscan_user"

NoItem == [has |-> FALSE, text |-> ""]
Item(text) == [has |-> TRUE, text |-> text]

\* localStorage.getItem: the stored string, or null
getItem(ls, key) == IF ls[key].has THEN ls[key].text ELSE Null

\* localStorage.setItem stores String(value)
ToStr(v) == IF v = Undefined THEN "undefined" ELSE IF v = Null THEN "null" ELSE v
setItem(ls, key, value) == [ls EXCEPT ![key] = Item(ToStr(value))]

removeItem(ls, key) == [ls EXCEPT ![key] = NoItem]

\* A user object with id u is the value u; its JSON text is {u}.
\* JSON.stringify(undefined) is undefined.
JSONstringify(v) ==
    IF v = Undefined THEN Undefined
    ELSE IF v = Null THEN "null"
    ELSE "{" \o v \o "}"

SyntaxError == "<SyntaxError>"

\* JSON.parse: the value, or SyntaxError when it throws
JSONparse(text) ==
    IF text = "null" THEN Null
    ELSE IF Len(text) >= 2 /\ Char(text, 1) = "{" /\ Char(text, Len(text)) = "}"
         THEN SubSeq(text, 2, Len(text) - 1)
    ELSE SyntaxError

Users == {"u1"}
Tokens == {"tok1"}

\* authService.getCurrentUser
getCurrentUser(ls) ==
    LET userStr == getItem(ls, USER_STORAGE_KEY)
    IN  IF Truthy(userStr) THEN JSONparse(userStr) ELSE Null

\* The request interceptor of apiClient: the Authorization header it adds
apiClient_interceptor(ls) ==
    LET token == getItem(ls, JWT_STORAGE_KEY)
    IN  IF Truthy(token) THEN "Bearer " \o token ELSE NoHeader

\* authService.logout that forgets the user key
authService_logout_keepsUser(ls) == removeItem(ls, JWT_STORAGE_KEY)

\* authService.logout
authService_logout(ls) ==
    removeItem(removeItem(ls, JWT_STORAGE_KEY), USER_STORAGE_KEY)

\* authService.login that stores the token alone
authService_login_store_tokenOnly(ls, data) ==
    IF Truthy(data.token) THEN setItem(ls, JWT_STORAGE_KEY, data.token) ELSE ls

\* the part of authService.login that follows a 2xx response with JSON data
authService_login_store(ls, data) ==
    IF Truthy(data.token)
    THEN setItem(setItem(ls, JWT_STORAGE_KEY, data.token),
                 USER_STORAGE_KEY, JSONstringify(data.user))
    ELSE ls

-----------------------------------------------------------------------------
(* Routing *)

ProtectedPaths ==
    {"/dashboard", "/diagnosis", "/medical-chat", "/history", "/profile", "/settings"}

NoState == [from |-> Undefined, message |-> Undefined]

\* The fields of RegisterPage as useState('') leaves them
EmptyForm == [email |-> "", password |-> "", confirmPassword |-> ""]

\* ProtectedRoute without the check of loading
ProtectedRoute_ignoresLoading(user, isLoading, pathname) ==
    IF ~Truthy(user) THEN [kind |-> "redirect", to |-> "/login", from |-> pathname]
    ELSE [kind |-> "children", to |-> "", from |-> ""]

\* ProtectedRoute: what it returns for the auth context and the location
ProtectedRoute(user, isLoading, pathname) ==
    IF isLoading THEN [kind |-> "spinner", to |-> "", from |-> ""]
    ELSE IF ~Truthy(user) THEN [kind |-> "redirect", to |-> "/login", from |-> pathname]
    ELSE [kind |-> "children", to |-> "", from |-> ""]

\* App: the element of the route that matches the location
App(pathname, user, isLoading) ==
    IF pathname \in ProtectedPaths THEN ProtectedRoute(user, isLoading, pathname)
    ELSE [kind |-> "public", to |-> "", from |-> ""]

\* React re-renders after every state change
Render == view' = App(path', currentUser', loading')

\* The Link and NavLink elements of the page shown at a location
Links(pathname, user, shown) ==
    IF pathname = "/" THEN (IF Truthy(user) THEN {"/dashboard"} ELSE {"/login", "/register"})
    ELSE IF pathname = "/login" THEN {"/forgot-password", "/register"}
    ELSE IF pathname \in {"/register", "/forgot-password"} THEN {"/login"}
    ELSE IF shown.kind = "children" THEN ProtectedPaths \ {pathname}
    ELSE {}

-----------------------------------------------------------------------------
(* HTTP requests.  A request record keeps what was sent (op, url, auth,     *)
(* file) and whether it is outstanding (state is open, then resolved or    *)
(* rejected).  For a login or register request it also keeps the handler   *)
(* that awaits Promise.race: race is pending until the request or the 15 s *)
(* timer settles it, live says whether the page instance that started it  *)
(* is still mounted, from is location.state.from in the handler's closure. *)
(* Once the race is settled the handler has returned: live and from are    *)
(* dropped, and a timer that fires after the race was settled by the       *)
(* request itself does nothing and is not kept.                            *)

Xhr(op, url, auth, from) ==
    [op |-> op, url |-> url, auth |-> auth, file |-> Null, state |-> "open",
     race |-> "pending", timer |-> "armed", live |-> TRUE, from |-> from, call |-> 0]

IsOpen(x) == x.state = "open"

\* Request x once its own promise has settled to p
Settled(x, p) ==
    [x EXCEPT !.state = IF p.resolved THEN "resolved" ELSE "rejected",
              !.race = "settled", !.timer = "none", !.live = FALSE, !.from = Undefined]

\* Request x once the 15 s timer has rejected the race: the request stays open
TimedOut(x) ==
    [x EXCEPT !.race = "settled", !.timer = "fired", !.live = FALSE, !.from = Undefined]

\* The requests of a page that unmounts lose their page
Unmount(xs, op) ==
    [i \in DOMAIN xs |-> IF xs[i].op = op THEN [xs[i] EXCEPT !.live = FALSE] ELSE xs[i]]

\* The requests after a navigation from one location to another
AfterNav(xs, old, new) ==
    IF old = new THEN xs
    ELSE IF old = "/login" THEN Unmount(Unmount(xs, "login"), "status")
    ELSE IF old = "/register" THEN Unmount(xs, "register")
    ELSE IF old = "/diagnosis" THEN Unmount(xs, "analyze")
    ELSE xs

\* A response: ok is a 2xx status, json says whether the body parses;
\* token, user and message are the fields of the parsed body.
Response(ok, json, token, user, message) ==
    [ok |-> ok, json |-> json, token |-> token, user |-> user, message |-> message]

LoginResponses ==
    { Response(TRUE, TRUE, t, u, Undefined) :
          t \in Tokens \cup {Undefined}, u \in Users \cup {Undefined} }
    \cup { Response(TRUE, FALSE, Undefined, Undefined, Undefined) }
    \cup { Response(FALSE, TRUE, Undefined, Undefined, m) :
              m \in {"Invalid credentials", "Gateway timeout", Undefined} }
    \cup { Response(FALSE, FALSE, Undefined, Undefined, Undefined) }

\* What a promise settles to
Resolved(data) == [resolved |-> TRUE, token |-> data.token, user |-> data.user, message |-> ""]
Rejected(message) ==
    [resolved |-> FALSE, token |-> Undefined, user |-> Undefined, message |-> message]

\* xhr.onload of authService.login and authService.register
xhr_onload(resp, statusMessage) ==
    IF resp.ok
    THEN IF resp.json THEN Resolved(resp) ELSE Rejected("Invalid response format")
    ELSE IF resp.json THEN Rejected(resp.message) ELSE Rejected(statusMessage)

\* the catch block of authService.login: the error has no response and no request
authService_login_catch(p) ==
    IF p.resolved THEN p ELSE Rejected(Or(p.message, "Login failed. Please try again."))

\* the catch block of LoginPage.handleSubmit
LoginPage_catch(message) ==
    IF Truthy(message) /\ Includes(message, "timeout")
    THEN "Connection to server timed out. Please check your internet connection and try again."
    ELSE IF Truthy(message) /\ Includes(message, "Network Error")
    THEN "Network error. Please check if the server is running and try again."
    ELSE Or(message, "Failed to login. Please check your credentials.")

-----------------------------------------------------------------------------
(* The inputs of the forms.  Every email passes the browser's own check of *)
(* an input of type email, every password is non-empty (required).         *)

Emails == {"a@b.co", "x.y@d-e.org", "a@b", "a@b.c", "a!b@c.de", "a@b.c1"}
Passwords == {"12345", "123456", "abcdefg"}

\* What is typed into the fields of RegisterPage
FormEmails == {"a@b.co", "a@b.c", "a!b@c.de"}
FormPasswords == {"12345", "123456"}

-----------------------------------------------------------------------------
(* AuthProvider *)

\* A DiagnosisPage that is not mounted, or newly mounted, has its initial state
DiagnosisPage_unmount ==
    /\ uploadedImage' = Null
    /\ imageFile' = Null
    /\ analysisResults' = Null
    /\ isAnalyzing' = FALSE
    /\ diagError' = ""
    /\ readers' = <<>>

\* A cleanup of the effect of DashboardPage that leaves its interval running
DashboardPage_cleanup_keepsInterval(intervalId) == intervalId

\* The cleanup of the effect of DashboardPage: clearInterval(intervalId)
DashboardPage_cleanup(intervalId) == "none"

\* The cleanup of the effect of ApiStatusIndicator: clearInterval(interval)
ApiStatusIndicator_cleanup(interval) == "none"

\* The page shown is left: the cleanup of its effects clears its interval, the
\* invocations it awaits lose their page, and the page that is mounted next
\* starts from its initial state
Pages_unmount ==
    /\ calls' = [k \in DOMAIN calls |-> [calls[k] EXCEPT !.live = FALSE]]
    /\ effectsRun' = FALSE
    /\ analyses' = <<>>
    /\ imgSrc' = <<>>
    /\ histLoading' = TRUE
    /\ histError' = Null
    /\ analysisCount' = 0
    /\ dashIsLoading' = TRUE
    /\ dashInterval' = DashboardPage_cleanup(dashInterval)
    /\ status' = "loading"
    /\ statusInterval' = ApiStatusIndicator_cleanup(statusInterval)

\* useEffect(() => { ... }, []) of AuthProvider.  JSON.parse throwing ends the effect.
AuthProvider_mount ==
    /\ ~authMounted
    /\ LET user == getCurrentUser(localStorage)
       IN  IF user = SyntaxError
           THEN UNCHANGED <<currentUser, loading, authMounted>>
           ELSE /\ currentUser' = user
                /\ loading' = FALSE
                /\ authMounted' = TRUE
    /\ lastOp' = Op("mount")
    /\ UNCHANGED <<localStorage, path, locState, loginVars, regVars, diagVars, dataVars, xhrs>>
    /\ Render

\* AuthProvider.logout: the state of the session after it
AuthProvider_logout(ls) == [ls |-> authService_logout(ls), user |-> Null]

\* DashboardLayout.handleLogout: logout(); navigate('/login')
DashboardLayout_handleLogout ==
    /\ authMounted
    /\ view.kind = "children"
    /\ LET s == AuthProvider_logout(localStorage)
       IN  /\ localStorage' = s.ls
           /\ currentUser' = s.user
    /\ path' = "/login"
    /\ locState' = NoState
    /\ xhrs' = AfterNav(xhrs, path, "/login")
    /\ DiagnosisPage_unmount
    /\ Pages_unmount
    /\ lastOp' = Op("logout")
    /\ UNCHANGED <<loading, authMounted, loginVars, regVars>>
    /\ Render

\* ProfilePage's Sign Out button: logout() once the user confirms
ProfilePage_signOut ==
    /\ authMounted
    /\ view.kind = "children"
    /\ path \in {"/profile", "/settings"}
    /\ LET s == AuthProvider_logout(localStorage)
       IN  /\ localStorage' = s.ls
           /\ currentUser' = s.user
    /\ lastOp' = Op("logout")
    /\ UNCHANGED <<loading, authMounted, path, locState, loginVars, regVars, diagVars, dataVars, xhrs>>
    /\ Render

\* The effect of the <Navigate> element ProtectedRoute returned
ProtectedRoute_navigate ==
    /\ authMounted
    /\ view.kind = "redirect"
    /\ path' = view.to
    /\ locState' = [from |-> view.from, message |-> Undefined]
    /\ lastOp' = Op("redirect")
    /\ UNCHANGED <<authVars, loginVars, regVars, diagVars, dataVars, xhrs>>
    /\ Render

\* The user follows a link of the page shown
ClickLink ==
    /\ authMounted
    /\ \E to \in Links(path, currentUser, view) :
          /\ path' = to
          /\ locState' = NoState
          /\ xhrs' = AfterNav(xhrs, path, to)
    /\ loginIsLoading' = FALSE
    /\ loginError' = ""
    /\ successMessage' = ""
    /\ regIsLoading' = FALSE
    /\ regError' = ""
    /\ regForm' = EmptyForm
    /\ DiagnosisPage_unmount
    /\ Pages_unmount
    /\ lastOp' = Op("link")
    /\ UNCHANGED authVars
    /\ Render

-----------------------------------------------------------------------------
(* LoginPage *)

\* A handleSubmit whose closure holds no location.state.from
authService_login_send_noFrom(email, from) ==
    Xhr("login", "/api/auth/direct-login", NoHeader, Undefined)

\* authService.login up to its await: the request it sends
authService_login_send(email, from) ==
    Xhr("login", "/api/auth/direct-login", NoHeader, from)

\* LoginPage.handleSubmit that forgets setIsLoading(true)
LoginPage_validate_noLoading(email) ==
    IF ~EMAIL_REGEX(email)
    THEN [error |-> "Please enter a valid email address", isLoading |-> FALSE, calls |-> FALSE]
    ELSE [error |-> "", isLoading |-> FALSE, calls |-> TRUE]

\* The check of LoginPage.handleSubmit before it calls login: the error and
\* isLoading it sets, and whether it goes on to call login
LoginPage_validate(email) ==
    IF ~EMAIL_REGEX(email)
    THEN [error |-> "Please enter a valid email address", isLoading |-> FALSE, calls |-> FALSE]
    ELSE [error |-> "", isLoading |-> TRUE, calls |-> TRUE]

\* The check of authService.login before it sends: the error it throws, "" when none
authService_login_validate(email) ==
    IF ~EMAIL_REGEX(email) THEN "Please enter a valid email address" ELSE ""

\* LoginPage.handleSubmit up to its await.  The Sign In button is disabled
\* while isLoading, and a form whose submit button is disabled is not submitted.
LoginPage_handleSubmit ==
    /\ authMounted
    /\ path = "/login"
    /\ ~loginIsLoading
    /\ Len(xhrs) < MaxRequests
    /\ \E email \in Emails, password \in Passwords :
          LET s == LoginPage_validate(email)
              apiError == authService_login_validate(email)
          IN  /\ IF ~s.calls
                 THEN /\ loginError' = s.error
                      /\ loginIsLoading' = s.isLoading
                      /\ UNCHANGED <<loading, xhrs>>
                 ELSE IF apiError # ""
                 THEN /\ loginError' = LoginPage_catch(apiError)
                      /\ loginIsLoading' = FALSE
                      /\ loading' = FALSE
                      /\ UNCHANGED xhrs
                 ELSE /\ loginError' = s.error
                      /\ loginIsLoading' = s.isLoading
                      /\ loading' = TRUE
                      /\ xhrs' = Append(xhrs, authService_login_send(email, locState.from))
              /\ lastOp' = [Op("loginSubmit") EXCEPT !.sent = (xhrs' # xhrs)]
    /\ UNCHANGED <<localStorage, currentUser, authMounted, path, locState, successMessage, regVars,
                   diagVars, dataVars>>
    /\ Render

\* The rest of AuthProvider.login and of LoginPage.handleSubmit once the promise
\* of authService.login of request i has settled to p
LoginSettled(i, p, name) ==
    LET x == xhrs[i]
        won == x.race = "pending"
        to == IF won /\ p.resolved THEN Or(x.from, "/dashboard") ELSE path
        leaves == to # path
        closed == [xhrs EXCEPT ![i] = Settled(x, p)]
    IN  /\ localStorage' = IF p.resolved THEN authService_login_store(localStorage, p)
                           ELSE localStorage
        /\ currentUser' = IF p.resolved THEN p.user ELSE currentUser
        /\ loading' = FALSE
        /\ path' = to
        /\ locState' = IF won /\ p.resolved THEN NoState ELSE locState
        /\ xhrs' = AfterNav(closed, path, to)
        /\ loginIsLoading' = IF leaves \/ (won /\ x.live) THEN FALSE ELSE loginIsLoading
        /\ loginError' = IF leaves THEN ""
                         ELSE IF won /\ x.live /\ ~p.resolved THEN LoginPage_catch(p.message)
                         ELSE loginError
        /\ successMessage' = IF leaves THEN "" ELSE successMessage
        /\ regIsLoading' = IF leaves THEN FALSE ELSE regIsLoading
        /\ regError' = IF leaves THEN "" ELSE regError
        /\ regForm' = IF leaves THEN EmptyForm ELSE regForm
        /\ IF leaves THEN DiagnosisPage_unmount /\ Pages_unmount
           ELSE UNCHANGED <<diagVars, dataVars>>
        /\ lastOp' = Completion(name, x, p)
        /\ UNCHANGED authMounted
        /\ Render

\* xhr.onload of the login request
LoginXhrLoad ==
    /\ \E i \in DOMAIN xhrs, resp \in LoginResponses :
          /\ xhrs[i].op = "login"
          /\ IsOpen(xhrs[i])
          /\ LoginSettled(i, authService_login_catch(
                                 xhr_onload(resp, "Login failed with status: 500")), "loginLoad")

\* xhr.onerror of the login request
LoginXhrError ==
    /\ \E i \in DOMAIN xhrs :
          /\ xhrs[i].op = "login"
          /\ IsOpen(xhrs[i])
          /\ LoginSettled(i, authService_login_catch(
                                 Rejected("Network error occurred during login")), "loginError")

\* xhr.ontimeout of the login request: 30 s after the send, so after the 15 s timer
LoginXhrTimeout ==
    /\ \E i \in DOMAIN xhrs :
          /\ xhrs[i].op = "login"
          /\ IsOpen(xhrs[i])
          /\ xhrs[i].timer = "fired"
          /\ LoginSettled(i, authService_login_catch(
                                 Rejected("Request timed out. Please try again.")), "loginXhrTimeout")

\* The 15 s timer of LoginPage.handleSubmit rejects the race; the request stays open
LoginPage_timeout(xs, i) == [xs EXCEPT ![i] = TimedOut(xs[i])]

\* A timer of LoginPage.handleSubmit whose finally block leaves isLoading alone
LoginTimer_keepsLoading ==
    /\ \E i \in DOMAIN xhrs :
          /\ xhrs[i].op = "login"
          /\ xhrs[i].timer = "armed"
          /\ xhrs' = LoginPage_timeout(xhrs, i)
          /\ IF xhrs[i].race = "pending" /\ xhrs[i].live
             THEN loginError' = LoginPage_catch("Login request timed out. Please try again.")
             ELSE UNCHANGED loginError
    /\ lastOp' = Op("loginTimer")
    /\ UNCHANGED <<authVars, path, locState, loginIsLoading, successMessage, regVars, diagVars, dataVars>>
    /\ Render

\* The 15 s timer fires: the catch and finally blocks of LoginPage.handleSubmit
LoginTimer ==
    /\ \E i \in DOMAIN xhrs :
          /\ xhrs[i].op = "login"
          /\ xhrs[i].timer = "armed"
          /\ xhrs' = LoginPage_timeout(xhrs, i)
          /\ IF xhrs[i].race = "pending" /\ xhrs[i].live
             THEN /\ loginError' = LoginPage_catch("Login request timed out. Please try again.")
                  /\ loginIsLoading' = FALSE
             ELSE UNCHANGED <<loginError, loginIsLoading>>
    /\ lastOp' = Op("loginTimer")
    /\ UNCHANGED <<authVars, path, locState, successMessage, regVars, diagVars, dataVars>>
    /\ Render

\* useEffect of LoginPage: show location.state.message once, keep location.state.from
LoginPage_effect ==
    /\ authMounted
    /\ path = "/login"
    /\ Truthy(locState.message)
    /\ successMessage' = locState.message
    /\ locState' = [from |-> locState.from, message |-> Undefined]
    /\ lastOp' = Op("loginEffect")
    /\ UNCHANGED <<authVars, path, loginIsLoading, loginError, regVars, diagVars, dataVars, xhrs>>
    /\ Render

-----------------------------------------------------------------------------
(* RegisterPage *)

RegisterResponses ==
    { Response(TRUE, j, Undefined, Undefined, Undefined) : j \in BOOLEAN }
    \cup { Response(FALSE, TRUE, Undefined, Undefined, m) :
              m \in {"User already exists", Undefined} }
    \cup { Response(FALSE, FALSE, Undefined, Undefined, Undefined) }

\* RegisterPage.handleSubmit without the comparison of the two passwords
RegisterPage_validate_noConfirm(email, password, confirmPassword) ==
    IF ~EMAIL_REGEX(email) THEN "Please enter a valid email address"
    ELSE IF Len(password) < 6 THEN "Password must be at least 6 characters"
    ELSE ""

\* The checks of RegisterPage.handleSubmit before it calls register: the error
\* it sets, "" when the form passes
RegisterPage_validate(email, password, confirmPassword) ==
    IF ~EMAIL_REGEX(email) THEN "Please enter a valid email address"
    ELSE IF password # confirmPassword THEN "Passwords do not match"
    ELSE IF Len(password) < 6 THEN "Password must be at least 6 characters"
    ELSE ""

\* The checks of authService.register before it sends: the error it throws, "" when none
authService_register_validate(email, password) ==
    IF ~EMAIL_REGEX(email) THEN "Please enter a valid email address"
    ELSE IF Len(password) < 6 THEN "Password must be at least 6 characters"
    ELSE ""

\* the catch block of authService.register
authService_register_catch(p) ==
    IF p.resolved THEN p ELSE Rejected(Or(p.message, "Registration failed. Please try again."))

\* the catch block of RegisterPage.handleSubmit
RegisterPage_catch(message) ==
    IF Truthy(message) /\ Includes(message, "timeout")
    THEN "Connection to server timed out. Please check your internet connection and try again."
    ELSE IF Truthy(message) /\ Includes(message, "Network Error")
    THEN "Network error. Please check if the server is running and try again."
    ELSE IF Truthy(message) /\ Includes(message, "User already exists")
    THEN "An account with this email already exists. Please use a different email or try to log in."
    ELSE Or(message, "Failed to create account. Please try again.")

\* The rest of AuthProvider.register and of RegisterPage.handleSubmit once the
\* promise of authService.register of request i has settled to p
RegisterSettled(i, p, name) ==
    LET x == xhrs[i]
        won == x.race = "pending"
        to == IF won /\ p.resolved THEN "/login" ELSE path
        leaves == to # path
        closed == [xhrs EXCEPT ![i] = Settled(x, p)]
    IN  /\ loading' = FALSE
        /\ path' = to
        /\ locState' = IF won /\ p.resolved
                       THEN [from |-> Undefined,
                             message |-> "Registration successful. Please log in."]
                       ELSE locState
        /\ xhrs' = AfterNav(closed, path, to)
        /\ regIsLoading' = IF leaves \/ (won /\ x.live) THEN FALSE ELSE regIsLoading
        /\ regError' = IF leaves THEN ""
                       ELSE IF won /\ x.live /\ ~p.resolved THEN RegisterPage_catch(p.message)
                       ELSE regError
        /\ regForm' = IF leaves THEN EmptyForm ELSE regForm
        /\ loginIsLoading' = IF leaves THEN FALSE ELSE loginIsLoading
        /\ loginError' = IF leaves THEN "" ELSE loginError
        /\ successMessage' = IF leaves THEN "" ELSE successMessage
        /\ IF leaves THEN DiagnosisPage_unmount /\ Pages_unmount
           ELSE UNCHANGED <<diagVars, dataVars>>
        /\ lastOp' = Completion(name, x, p)
        /\ UNCHANGED <<localStorage, currentUser, authMounted>>
        /\ Render

\* onChange of the email, password and confirmPassword inputs
RegisterPage_onChange ==
    /\ authMounted
    /\ path = "/register"
    /\ \/ \E e \in FormEmails : regForm' = [regForm EXCEPT !.email = e]
       \/ \E p \in FormPasswords : regForm' = [regForm EXCEPT !.password = p]
       \/ \E p \in FormPasswords : regForm' = [regForm EXCEPT !.confirmPassword = p]
    /\ lastOp' = Op("registerChange")
    /\ UNCHANGED <<authVars, path, locState, loginVars, regIsLoading, regError, diagVars, dataVars, xhrs>>
    /\ Render

\* RegisterPage.handleSubmit up to its await; register runs up to the send of
\* authService.register, which repeats the checks of the email and the password
RegisterPage_handleSubmit ==
    /\ authMounted
    /\ path = "/register"
    /\ ~regIsLoading
    /\ Len(xhrs) < MaxRequests
    /\ regForm.email # "" /\ regForm.password # "" /\ regForm.confirmPassword # ""
    /\ LET email == regForm.email
           password == regForm.password
           pageError == RegisterPage_validate(email, password, regForm.confirmPassword)
           apiError == authService_register_validate(email, password)
       IN  IF pageError # ""
           THEN /\ regError' = pageError
                /\ UNCHANGED <<regIsLoading, loading, xhrs>>
           ELSE IF apiError # ""
           THEN /\ regError' = RegisterPage_catch(apiError)
                /\ regIsLoading' = FALSE
                /\ loading' = FALSE
                /\ UNCHANGED xhrs
           ELSE /\ regError' = ""
                /\ regIsLoading' = TRUE
                /\ loading' = TRUE
                /\ xhrs' = Append(xhrs, Xhr("register", "/api/auth/direct-register",
                                            NoHeader, Undefined))
    /\ lastOp' = [Op("registerSubmit") EXCEPT !.sent = (xhrs' # xhrs)]
    /\ UNCHANGED <<localStorage, currentUser, authMounted, path, locState, loginVars, regForm,
                   diagVars, dataVars>>
    /\ Render

\* xhr.onload of the register request
RegisterXhrLoad ==
    /\ \E i \in DOMAIN xhrs, resp \in RegisterResponses :
          /\ xhrs[i].op = "register"
          /\ IsOpen(xhrs[i])
          /\ RegisterSettled(i, authService_register_catch(
                                    xhr_onload(resp, "Registration failed with status: 500")), "registerLoad")

\* xhr.onerror of the register request
RegisterXhrError ==
    /\ \E i \in DOMAIN xhrs :
          /\ xhrs[i].op = "register"
          /\ IsOpen(xhrs[i])
          /\ RegisterSettled(i, authService_register_catch(
                                    Rejected("Network error occurred during registration")), "registerError")

\* xhr.ontimeout of the register request: 30 s after the send, so after the 15 s timer
RegisterXhrTimeout ==
    /\ \E i \in DOMAIN xhrs :
          /\ xhrs[i].op = "register"
          /\ IsOpen(xhrs[i])
          /\ xhrs[i].timer = "fired"
          /\ RegisterSettled(i, authService_register_catch(
                                    Rejected("Request timed out. Please try again.")), "registerXhrTimeout")

\* The 15 s timer of RegisterPage.handleSubmit rejects the race
RegisterTimer ==
    /\ \E i \in DOMAIN xhrs :
          /\ xhrs[i].op = "register"
          /\ xhrs[i].timer = "armed"
          /\ xhrs' = [xhrs EXCEPT ![i] = TimedOut(xhrs[i])]
          /\ IF xhrs[i].race = "pending" /\ xhrs[i].live
             THEN /\ regError' = RegisterPage_catch(
                                     "Registration request timed out. Please try again.")
                  /\ regIsLoading' = FALSE
             ELSE UNCHANGED <<regError, regIsLoading>>
    /\ lastOp' = Op("registerTimer")
    /\ UNCHANGED <<authVars, path, locState, loginVars, regForm, diagVars, dataVars>>
    /\ Render

-----------------------------------------------------------------------------
(* DiagnosisPage and medicalService.analyzeImage *)

\* The files the user can pick in the file dialog: type and size in bytes
FileNames == {"a.png", "c.png", "notes.txt", "big.pdf", "drawing.odi"}

file_type(f) ==
    CASE f = "a.png" -> "image/png"
      [] f = "c.png" -> "image/png"
      [] f = "notes.txt" -> "text/plain"
      [] f = "big.pdf" -> "application/pdf"
      [] f = "drawing.odi" -> "application/vnd.oasis.opendocument.image"

file_size(f) ==
    CASE f = "a.png" -> 10 * 1024 * 1024
      [] f = "c.png" -> 10 * 1024 * 1024 + 1
      [] f = "notes.txt" -> 1024
      [] f = "big.pdf" -> 10 * 1024 * 1024 + 1
      [] f = "drawing.odi" -> 1024

\* file.type.match('image.*'): the pattern is not anchored
file_type_match(type) == Includes(type, "image")

\* The checks of handleImageUpload with a limit that excludes 10MB itself
handleImageUpload_check_inclusive(f) ==
    IF ~file_type_match(file_type(f)) THEN "Please select an image file (JPEG, PNG)"
    ELSE IF file_size(f) >= 10 * 1024 * 1024 THEN "File size exceeds 10MB limit"
    ELSE ""

\* The checks of handleImageUpload: the error it sets, or '' when it accepts
handleImageUpload_check(f) ==
    IF ~file_type_match(file_type(f)) THEN "Please select an image file (JPEG, PNG)"
    ELSE IF file_size(f) > 10 * 1024 * 1024 THEN "File size exceeds 10MB limit"
    ELSE ""

\* The page is shown: its route matched and ProtectedRoute rendered its children
DiagnosisPage_shown == authMounted /\ path = "/diagnosis" /\ view.kind = "children"

\* An Analyze button that stays enabled during an analysis
AnalyzeButton_disabled_noAnalyzing(image, analyzing) == ~Truthy(image)

\* disabled={!uploadedImage || isAnalyzing}
AnalyzeButton_disabled(image, analyzing) == ~Truthy(image) \/ analyzing

\* DiagnosisPage.handleImageUpload: the user picks a file, or closes the dialog
DiagnosisPage_handleImageUpload ==
    /\ DiagnosisPage_shown
    /\ \E f \in FileNames \cup {Undefined} :
          /\ IF f = Undefined
             THEN UNCHANGED diagVars
             ELSE IF handleImageUpload_check(f) # ""
             THEN /\ diagError' = handleImageUpload_check(f)
                  /\ UNCHANGED <<uploadedImage, imageFile, analysisResults, isAnalyzing, readers>>
             ELSE /\ Len(readers) < MaxReads
                  /\ diagError' = ""
                  /\ imageFile' = f
                  /\ readers' = Append(readers, f)
                  /\ UNCHANGED <<uploadedImage, analysisResults, isAnalyzing>>
          /\ lastOp' = [Op("upload") EXCEPT !.file = f]
    /\ UNCHANGED <<authVars, path, locState, loginVars, regVars, dataVars, xhrs>>
    /\ Render

\* A reader.onloadend that leaves the analysis results alone
FileReader_onloadend_keepsResults ==
    /\ \E i \in DOMAIN readers, ok \in BOOLEAN :
          /\ uploadedImage' = IF ok THEN "data:" \o readers[i] ELSE Null
          /\ readers' = SubSeq(readers, 1, i - 1) \o SubSeq(readers, i + 1, Len(readers))
          /\ lastOp' = Op("loadend")
    /\ UNCHANGED <<authVars, path, locState, loginVars, regVars, dataVars, imageFile, isAnalyzing,
                   diagError, analysisResults, xhrs>>
    /\ Render

\* reader.onloadend: a read ends, with the data URL or, after an error, with null
FileReader_onloadend ==
    /\ \E i \in DOMAIN readers, ok \in BOOLEAN :
          /\ uploadedImage' = IF ok THEN "data:" \o readers[i] ELSE Null
          /\ analysisResults' = Null
          /\ readers' = SubSeq(readers, 1, i - 1) \o SubSeq(readers, i + 1, Len(readers))
          /\ lastOp' = Op("loadend")
    /\ UNCHANGED <<authVars, path, locState, loginVars, regVars, dataVars, imageFile, isAnalyzing,
                   diagError, xhrs>>
    /\ Render

\* medicalService.analyzeImage: the user id it puts in the query string, or
\* SyntaxError when JSON.parse throws in the executor of the promise
analyzeImage_userId(ls) ==
    LET user == JSONparse(ToStr(getItem(ls, USER_STORAGE_KEY)))
    IN  IF user = SyntaxError THEN SyntaxError ELSE Or(user, "test_user")

\* medicalService.analyzeImage: the request it sends
medicalService_analyzeImage_send(userId, file) ==
    [Xhr("analyze", "/api/ml/emergency-analyze?user_id=" \o userId, NoHeader, Undefined)
        EXCEPT !.file = file, !.timer = "none"]

AnalyzeResolved(data) == [resolved |-> TRUE, data |-> data, message |-> ""]
AnalyzeRejected(message) == [resolved |-> FALSE, data |-> Undefined, message |-> message]

AnalyzeResponses ==
    { Response(TRUE, json, Undefined, Undefined, Undefined) : json \in BOOLEAN }
    \cup { Response(FALSE, TRUE, Undefined, Undefined, m) : m \in {"No image provided", Undefined} }
    \cup { Response(FALSE, FALSE, Undefined, Undefined, Undefined) }

\* xhr.onload of medicalService.analyzeImage; the body is the analysis of the file sent
analyzeImage_onload(resp, file) ==
    IF resp.ok
    THEN IF resp.json THEN AnalyzeResolved("analysis of " \o file)
         ELSE AnalyzeRejected("Invalid JSON response from server")
    ELSE IF resp.json THEN AnalyzeRejected(resp.message)
         ELSE AnalyzeRejected("Server returned 500: Internal Server Error")

\* the catch block of medicalService.analyzeImage: no response, no request
medicalService_analyzeImage_catch(p) ==
    IF p.resolved THEN p
    ELSE AnalyzeRejected(Or(p.message, "Image analysis failed. Please try again."))

\* the catch block of DiagnosisPage.handleAnalyze
DiagnosisPage_handleAnalyze_catch(message) == Or(message, "Analysis failed. Please try again.")

\* DiagnosisPage.handleAnalyze up to its await: a click on the Analyze button
DiagnosisPage_handleAnalyze ==
    /\ DiagnosisPage_shown
    /\ ~AnalyzeButton_disabled(uploadedImage, isAnalyzing)
    /\ IF ~Truthy(imageFile)
       THEN /\ lastOp' = Op("analyze")
            /\ UNCHANGED <<isAnalyzing, diagError, xhrs>>
       ELSE LET userId == analyzeImage_userId(localStorage)
            IN  IF userId = SyntaxError
                THEN /\ isAnalyzing' = FALSE
                     /\ diagError' = DiagnosisPage_handleAnalyze_catch(
                             medicalService_analyzeImage_catch(
                                 AnalyzeRejected("\"undefined\" is not valid JSON")).message)
                     /\ lastOp' = [Op("analyze") EXCEPT !.file = imageFile]
                     /\ UNCHANGED xhrs
                ELSE /\ Len(xhrs) < MaxRequests
                     /\ isAnalyzing' = TRUE
                     /\ diagError' = ""
                     /\ xhrs' = Append(xhrs, medicalService_analyzeImage_send(userId, imageFile))
                     /\ lastOp' = [Op("analyze") EXCEPT !.sent = TRUE, !.file = imageFile]
    /\ UNCHANGED <<authVars, path, locState, loginVars, regVars, dataVars, uploadedImage, imageFile,
                   analysisResults, readers>>
    /\ Render

\* The rest of DiagnosisPage.handleAnalyze once the promise of analyzeImage of
\* request i has settled to p; a page that was left sets no state
AnalyzeSettled(i, p, name) ==
    LET x == xhrs[i]
    IN  /\ xhrs' = [xhrs EXCEPT ![i] = Settled(x, p)]
        /\ IF x.live
           THEN /\ analysisResults' = IF p.resolved THEN p.data ELSE analysisResults
                /\ diagError' = IF p.resolved THEN diagError
                                ELSE DiagnosisPage_handleAnalyze_catch(p.message)
                /\ isAnalyzing' = FALSE
                /\ UNCHANGED <<uploadedImage, imageFile, readers>>
           ELSE UNCHANGED diagVars
        /\ lastOp' = [Op(name) EXCEPT !.resolved = p.resolved]
        /\ UNCHANGED <<authVars, path, locState, loginVars, regVars, dataVars>>
        /\ Render

\* xhr.onload of the analyze request
AnalyzeXhrLoad ==
    /\ \E i \in DOMAIN xhrs, resp \in AnalyzeResponses :
          /\ xhrs[i].op = "analyze"
          /\ IsOpen(xhrs[i])
          /\ AnalyzeSettled(i, medicalService_analyzeImage_catch(
                                   analyzeImage_onload(resp, xhrs[i].file)), "analyzeDone")

\* xhr.onerror of the analyze request
AnalyzeXhrError ==
    /\ \E i \in DOMAIN xhrs :
          /\ xhrs[i].op = "analyze"
          /\ IsOpen(xhrs[i])
          /\ AnalyzeSettled(i, medicalService_analyzeImage_catch(
                                   AnalyzeRejected("Network error occurred during upload")),
                            "analyzeDone")

\* xhr.ontimeout of the analyze request, 60 s after the send
AnalyzeXhrTimeout ==
    /\ \E i \in DOMAIN xhrs :
          /\ xhrs[i].op = "analyze"
          /\ IsOpen(xhrs[i])
          /\ AnalyzeSettled(i, medicalService_analyzeImage_catch(
                 AnalyzeRejected("Upload timed out. Please try again with a smaller file or better connection")),
                            "analyzeDone")

\* DiagnosisPage.handleReset: the Remove button, shown with a preview, or the
\* Start New Analysis button, shown with results
DiagnosisPage_handleReset ==
    /\ DiagnosisPage_shown
    /\ Truthy(uploadedImage) \/ Truthy(analysisResults)
    /\ uploadedImage' = Null
    /\ imageFile' = Null
    /\ analysisResults' = Null
    /\ diagError' = ""
    /\ lastOp' = Op("reset")
    /\ UNCHANGED <<authVars, path, locState, loginVars, regVars, dataVars, isAnalyzing, readers, xhrs>>
    /\ Render

-----------------------------------------------------------------------------
(* The API client called for a user action: forgotPassword, resetPassword,  *)
(* getHistory and getAnalysisDetails.  Each invocation is a record of calls: *)
(* its operation and argument, who awaits it (by, live), and what its       *)
(* promise has settled to.  A request carries the index of its invocation.  *)

\* What a promise of the API client settles to: the fields of the data of a
\* response, or of the object thrown or returned in its place
Value(st, hasAnalyses, list, count, message) ==
    [status |-> st, hasAnalyses |-> hasAnalyses, analyses |-> list, count |-> count,
     message |-> message]

Call(op, arg, by) ==
    [op |-> op, arg |-> arg, by |-> by, live |-> TRUE, state |-> "pending",
     value |-> Value(Undefined, FALSE, <<>>, 0, Undefined)]

CallResolved(value) == [state |-> "resolved", value |-> value]
CallRejected(message) ==
    [state |-> "rejected", value |-> Value(Undefined, FALSE, <<>>, 0, message)]

\* An error caught by the API client: the message of error.response.data, or
\* undefined when the error has no response, and error.message
Error(response, message) == [response |-> response, message |-> message]

\* apiClient.get and apiClient.post: the request leaves with the header of the interceptor
apiClient_request(ls, op, url, k) ==
    [Xhr(op, url, apiClient_interceptor(ls), Undefined) EXCEPT !.timer = "none", !.call = k]

\* A request sent with a bare XMLHttpRequest: no header is set
XMLHttpRequest_send(op, url, k) ==
    [Xhr(op, url, NoHeader, Undefined) EXCEPT !.timer = "none", !.call = k]

\* How a request of apiClient ends: a 2xx response, a response with another
\* status whose body carries a message, or no response at all
AxiosErrors ==
    { Error("Server error", "Request failed with status code 500"),
      Error(Undefined, "Network Error"),
      Error(Undefined, "timeout of 20000ms exceeded") }

\* authService.forgotPassword: its validation, the message of the Error it throws
authService_forgotPassword_validate(email) ==
    IF ~EMAIL_REGEX(email) THEN "Please enter a valid email address" ELSE ""

\* the catch block of authService.forgotPassword
authService_forgotPassword_catch(error) ==
    CallRejected(Or(error.response, "Password reset request failed. Please try again."))

\* authService.resetPassword: its validation, the message of the Error it throws
authService_resetPassword_validate(password) ==
    IF Len(password) < 6 THEN "Password must be at least 6 characters" ELSE ""

\* the catch block of authService.resetPassword
authService_resetPassword_catch(error) ==
    CallRejected(Or(error.response, "Password reset failed. Please try again."))

\* An invocation that ends before its first await
Ended(call, settled) == [call EXCEPT !.state = settled.state, !.value = settled.value]

\* authService.forgotPassword(email) up to its await
authService_forgotPassword ==
    /\ Len(calls) < MaxCalls
    /\ \E email \in FormEmails :
          LET message == authService_forgotPassword_validate(email)
              call == Call("forgotPassword", email, "api")
          IN  IF message # ""
              THEN /\ calls' = Append(calls, Ended(call,
                           authService_forgotPassword_catch(Error(Undefined, message))))
                   /\ UNCHANGED xhrs
              ELSE /\ Len(xhrs) < MaxRequests
                   /\ calls' = Append(calls, call)
                   /\ xhrs' = Append(xhrs, apiClient_request(localStorage, "forgotPassword",
                                               "/api/auth/forgot-password", Len(calls) + 1))
    /\ lastOp' = Op("forgotPassword")
    /\ UNCHANGED <<authVars, routeVars, loginVars, regVars, diagVars, effectsRun, histVars,
                   dashVars, statusVars>>

\* authService.resetPassword(token, password) up to its await
authService_resetPassword ==
    /\ Len(calls) < MaxCalls
    /\ \E password \in FormPasswords :
          LET message == authService_resetPassword_validate(password)
              call == Call("resetPassword", password, "api")
          IN  IF message # ""
              THEN /\ calls' = Append(calls, Ended(call,
                           authService_resetPassword_catch(Error(Undefined, message))))
                   /\ UNCHANGED xhrs
              ELSE /\ Len(xhrs) < MaxRequests
                   /\ calls' = Append(calls, call)
                   /\ xhrs' = Append(xhrs, apiClient_request(localStorage, "resetPassword",
                                               "/api/auth/reset-password", Len(calls) + 1))
    /\ lastOp' = Op("resetPassword")
    /\ UNCHANGED <<authVars, routeVars, loginVars, regVars, diagVars, effectsRun, histVars,
                   dashVars, statusVars>>

\* The request of forgotPassword or resetPassword ends: the rest of the operation
PasswordRequestEnds ==
    /\ \E i \in DOMAIN xhrs :
          /\ xhrs[i].op \in {"forgotPassword", "resetPassword"}
          /\ IsOpen(xhrs[i])
          /\ \/ /\ xhrs' = [xhrs EXCEPT ![i] = Settled(xhrs[i], [resolved |-> TRUE])]
                /\ calls' = [calls EXCEPT ![xhrs[i].call] =
                                Ended(@, CallResolved(Value("success", FALSE, <<>>, 0, Undefined)))]
             \/ \E error \in AxiosErrors :
                /\ xhrs' = [xhrs EXCEPT ![i] = Settled(xhrs[i], [resolved |-> FALSE])]
                /\ calls' = [calls EXCEPT ![xhrs[i].call] =
                                Ended(@, IF xhrs[i].op = "forgotPassword"
                                         THEN authService_forgotPassword_catch(error)
                                         ELSE authService_resetPassword_catch(error))]
    /\ lastOp' = Op("passwordRequestEnds")
    /\ UNCHANGED <<authVars, routeVars, loginVars, regVars, diagVars, effectsRun, histVars,
                   dashVars, statusVars>>

-----------------------------------------------------------------------------
(* medicalService.getHistory and getAnalysisDetails, HistoryPage, DashboardPage *)

\* HistoryPage.fetchHistory with no image to use when a record has no image_url
fallbackImageUrl_empty == ""

\* HistoryPage.fetchHistory: the local SVG data URI used when a record has no image_url
fallbackImageUrl ==
    "data:image/svg+xml;charset=UTF-8,%3Csvg%20xmlns%3D%22http%3A" \o
    "%2F%2Fwww.w3.org%2F2000%2Fsvg%22%20width%3D%22100%22%20heigh" \o
    "t%3D%22100%22%20viewBox%3D%220%200%20100%20100%22%3E%3Crect%" \o
    "20fill%3D%22%23f0f0f0%22%20width%3D%22100%22%20height%3D%221" \o
    "00%22%2F%3E%3Ctext%20fill%3D%22%23888888%22%20font-family%3D" \o
    "%22Arial%2CSans-serif%22%20font-size%3D%2212%22%20x%3D%2250%" \o
    "25%22%20y%3D%2250%25%22%20text-anchor%3D%22middle%22%20dy%3D" \o
    "%22.3em%22%3EX-Ray%3C%2Ftext%3E%3C%2Fsvg%3E"

\* HistoryPage: the src that onError of an <img> puts in place of the one that failed
img_onError_src ==
    "data:image/svg+xml;charset=UTF-8,%3Csvg%20xmlns%3D%22http%3A" \o
    "%2F%2Fwww.w3.org%2F2000%2Fsvg%22%20width%3D%22100%22%20heigh" \o
    "t%3D%22100%22%20viewBox%3D%220%200%20100%20100%22%3E%3Crect%" \o
    "20fill%3D%22%23f0f0f0%22%20width%3D%22100%22%20height%3D%221" \o
    "00%22%2F%3E%3Ctext%20fill%3D%22%23888888%22%20font-family%3D" \o
    "%22Arial%2CSans-serif%22%20font-size%3D%2212%22%20x%3D%2250%" \o
    "25%22%20y%3D%2250%25%22%20text-anchor%3D%22middle%22%20dy%3D" \o
    "%22.3em%22%3EX-Ray%3C%2Ftext%3E%3C%2Fsvg%3E"

\* The histories the server can answer with: the image_url of each record
ServerHistories == { <<>>, <<"/uploads/1.png", Undefined>>, <<"">> }

HistoryResponses ==
    { Value("success", TRUE, h, Len(h), Undefined) : h \in ServerHistories }
    \cup { Value("success", FALSE, <<>>, 0, Undefined) }

\* HistoryPage.fetchHistory: formattedAnalyses, the imageUrl of each entry
formattedAnalyses(list) == [i \in DOMAIN list |-> Or(list[i], fallbackImageUrl)]

\* HistoryPage.fetchHistory after its await: the analyses it sets
HistoryPage_setAnalyses(old, settled) ==
    IF settled.state = "rejected" THEN old
    ELSE IF settled.value.hasAnalyses /\ Len(settled.value.analyses) > 0
         THEN formattedAnalyses(settled.value.analyses)
    ELSE <<>>

\* HistoryPage.fetchHistory after its await: the error it sets in its catch block
HistoryPage_setError(old, settled) ==
    IF settled.state = "rejected"
    THEN Or(settled.value.message, "Failed to load history")
    ELSE old

\* The <img> elements after a render: an element whose src prop did not change
\* keeps the src it has, a new or changed one gets its prop
img_render(srcs, old, new) ==
    [i \in DOMAIN new |-> IF i \in DOMAIN old /\ old[i] = new[i] THEN srcs[i] ELSE new[i]]

\* DashboardPage.fetchHistoryCounts after its await: the count it sets
DashboardPage_setAnalysisCount(old, settled) ==
    IF settled.state = "rejected" THEN old
    ELSE IF settled.value.hasAnalyses THEN Len(settled.value.analyses)
    ELSE 0

\* The page that awaits an invocation of getHistory goes on once it has settled
getHistory_then(call, settled) ==
    IF call.live /\ call.by = "history"
    THEN /\ analyses' = HistoryPage_setAnalyses(analyses, settled)
         /\ imgSrc' = img_render(imgSrc, analyses, analyses')
         /\ histError' = HistoryPage_setError(histError, settled)
         /\ histLoading' = FALSE
         /\ UNCHANGED dashVars
    ELSE IF call.live /\ call.by = "dashboard"
    THEN /\ analysisCount' = DashboardPage_setAnalysisCount(analysisCount, settled)
         /\ dashIsLoading' = FALSE
         /\ UNCHANGED <<dashInterval, histVars>>
    ELSE UNCHANGED <<histVars, dashVars>>

\* medicalService.getHistory: the user id of the emergency request, or
\* SyntaxError when JSON.parse throws
getHistory_userId(ls) ==
    LET user == JSONparse(ToStr(getItem(ls, USER_STORAGE_KEY)))
    IN  IF user = SyntaxError THEN SyntaxError ELSE Or(user, "test_user")

\* medicalService.getHistory: the URL of the request of its fallback, sent again
\* to the authenticated endpoint
getHistory_fallback_url_retry(userId) == "/api/ml/history"

\* medicalService.getHistory: the URL of the request of its fallback
getHistory_fallback_url(userId) == "/api/ml/emergency-history?user_id=" \o userId

\* medicalService.getHistory whose inner catch block also runs after a success
getHistory_fallsBack_always(ok) == TRUE

\* medicalService.getHistory: the inner catch block runs when apiClient.get rejected
getHistory_fallsBack(ok) == ~ok

\* medicalService.getHistory whose outer catch block throws the error again
medicalService_getHistory_catch_rethrows(message) == CallRejected(message)

\* the outer catch block of medicalService.getHistory: String(error) of an Error
medicalService_getHistory_catch(message) ==
    CallResolved(Value("error", TRUE, <<>>, 0, "Error: " \o message))

\* medicalService.getHistory up to its first await, invoked by a page or directly
medicalService_getHistory(by, live) ==
    /\ Len(calls) < MaxCalls
    /\ Len(xhrs) < MaxHistoryRequests
    /\ calls' = Append(calls, [Call("getHistory", Undefined, by) EXCEPT !.live = live])
    /\ xhrs' = Append(xhrs, apiClient_request(localStorage, "history", "/api/ml/history",
                                Len(calls) + 1))

\* The request to /api/ml/history ends: getHistory returns the data, or its
\* inner catch block sends the emergency request
HistoryRequestEnds ==
    /\ \E i \in DOMAIN xhrs, ok \in BOOLEAN :
          LET k == xhrs[i].call
              userId == getHistory_userId(localStorage)
              closed == [xhrs EXCEPT ![i] = Settled(xhrs[i], [resolved |-> ok])]
          IN  /\ xhrs[i].op = "history"
              /\ IsOpen(xhrs[i])
              /\ IF ~getHistory_fallsBack(ok)
                 THEN \E data \in HistoryResponses :
                         /\ xhrs' = closed
                         /\ calls' = [calls EXCEPT ![k] = Ended(@, CallResolved(data))]
                         /\ getHistory_then(calls[k], CallResolved(data))
                 ELSE IF userId = SyntaxError
                 THEN LET settled == medicalService_getHistory_catch(
                                         "\"undefined\" is not valid JSON")
                      IN  /\ xhrs' = closed
                          /\ calls' = [calls EXCEPT ![k] = Ended(@, settled)]
                          /\ getHistory_then(calls[k], settled)
                 ELSE /\ Len(xhrs) < MaxHistoryRequests
                      /\ xhrs' = Append(closed, XMLHttpRequest_send("emergency-history",
                                                    getHistory_fallback_url(userId), k))
                      /\ UNCHANGED <<calls, histVars, dashVars>>
    /\ lastOp' = Op("historyRequestEnds")
    /\ UNCHANGED <<authVars, routeVars, loginVars, regVars, diagVars, effectsRun, statusVars>>

\* How the emergency request ends: the message of the Error it rejects with
EmergencyHistoryErrors ==
    { "Invalid JSON response from emergency history endpoint",
      "Emergency history failed with status: 500",
      "Network error occurred during emergency history request",
      "Emergency history request timed out" }

\* xhr.onload, xhr.onerror or xhr.ontimeout of the emergency request: the rest of getHistory
EmergencyHistoryRequestEnds ==
    /\ \E i \in DOMAIN xhrs :
          LET k == xhrs[i].call
          IN  /\ xhrs[i].op = "emergency-history"
              /\ IsOpen(xhrs[i])
              /\ \/ \E data \in HistoryResponses :
                       /\ xhrs' = [xhrs EXCEPT ![i] = Settled(xhrs[i], [resolved |-> TRUE])]
                       /\ calls' = [calls EXCEPT ![k] = Ended(@, CallResolved(data))]
                       /\ getHistory_then(calls[k], CallResolved(data))
                 \/ \E message \in EmergencyHistoryErrors :
                       LET settled == medicalService_getHistory_catch(message)
                       IN  /\ xhrs' = [xhrs EXCEPT ![i] = Settled(xhrs[i], [resolved |-> FALSE])]
                           /\ calls' = [calls EXCEPT ![k] = Ended(@, settled)]
                           /\ getHistory_then(calls[k], settled)
    /\ lastOp' = Op("emergencyHistoryRequestEnds")
    /\ UNCHANGED <<authVars, routeVars, loginVars, regVars, diagVars, effectsRun, statusVars>>

\* medicalService.getHistory() invoked on its own
medicalService_getHistory_direct ==
    /\ medicalService_getHistory("api", FALSE)
    /\ lastOp' = [Op("getHistory") EXCEPT !.sent = TRUE]
    /\ UNCHANGED <<authVars, routeVars, loginVars, regVars, diagVars, effectsRun, histVars,
                   dashVars, statusVars>>

\* medicalService.getAnalysisDetails(analysisId) up to its await
medicalService_getAnalysisDetails ==
    /\ Len(calls) < MaxCalls
    /\ Len(xhrs) < MaxRequests
    /\ calls' = Append(calls, [Call("getAnalysisDetails", "a1", "api") EXCEPT !.live = FALSE])
    /\ xhrs' = Append(xhrs, XMLHttpRequest_send("details", "/api/ml/analysis/a1", Len(calls) + 1))
    /\ lastOp' = [Op("getAnalysisDetails") EXCEPT !.sent = TRUE]
    /\ UNCHANGED <<authVars, routeVars, loginVars, regVars, diagVars, effectsRun, histVars,
                   dashVars, statusVars>>

\* xhr.onload, xhr.onerror or xhr.ontimeout of getAnalysisDetails; its catch block rethrows
DetailsRequestEnds ==
    /\ \E i \in DOMAIN xhrs :
          /\ xhrs[i].op = "details"
          /\ IsOpen(xhrs[i])
          /\ \/ /\ xhrs' = [xhrs EXCEPT ![i] = Settled(xhrs[i], [resolved |-> TRUE])]
                /\ calls' = [calls EXCEPT ![xhrs[i].call] =
                                Ended(@, CallResolved(Value("success", FALSE, <<>>, 0, Undefined)))]
             \/ \E message \in { "Invalid JSON response from analysis details endpoint",
                                 "Analysis details request failed with status: 500",
                                 "Network error occurred during analysis details request",
                                 "Analysis details request timed out" } :
                /\ xhrs' = [xhrs EXCEPT ![i] = Settled(xhrs[i], [resolved |-> FALSE])]
                /\ calls' = [calls EXCEPT ![xhrs[i].call] = Ended(@, CallRejected(message))]
    /\ lastOp' = Op("detailsRequestEnds")
    /\ UNCHANGED <<authVars, routeVars, loginVars, regVars, diagVars, effectsRun, histVars,
                   dashVars, statusVars>>

-----------------------------------------------------------------------------
(* HistoryPage, DashboardPage and ApiStatusIndicator *)

HistoryPage_shown == authMounted /\ path = "/history" /\ view.kind = "children"

DashboardPage_shown == authMounted /\ path = "/dashboard" /\ view.kind = "children"

\* ApiStatusIndicator is an element of LoginPage
ApiStatusIndicator_shown == authMounted /\ path = "/login"

\* HistoryPage.fetchHistory up to its await
HistoryPage_fetchHistory_start ==
    /\ medicalService_getHistory("history", TRUE)
    /\ histLoading' = TRUE
    /\ histError' = Null
    /\ UNCHANGED <<analyses, imgSrc, dashVars, statusVars>>
    /\ UNCHANGED <<authVars, routeVars, loginVars, regVars, diagVars>>

\* useEffect(() => { fetchHistory(); }, []) of HistoryPage
HistoryPage_mount ==
    /\ HistoryPage_shown
    /\ ~effectsRun
    /\ effectsRun' = TRUE
    /\ HistoryPage_fetchHistory_start
    /\ lastOp' = [Op("historyMount") EXCEPT !.sent = TRUE]

\* The Refresh History button, disabled={loading}
HistoryPage_fetchHistory ==
    /\ HistoryPage_shown
    /\ effectsRun
    /\ ~histLoading
    /\ UNCHANGED effectsRun
    /\ HistoryPage_fetchHistory_start
    /\ lastOp' = [Op("historyRefresh") EXCEPT !.sent = TRUE]

\* onError of the <img> of an entry: its image failed to load
HistoryPage_img_onError ==
    /\ HistoryPage_shown
    /\ \E i \in DOMAIN imgSrc :
          /\ imgSrc[i] # img_onError_src
          /\ imgSrc' = [imgSrc EXCEPT ![i] = img_onError_src]
    /\ lastOp' = Op("imgError")
    /\ UNCHANGED <<authVars, routeVars, loginVars, regVars, diagVars, calls, effectsRun,
                   analyses, histLoading, histError, dashVars, statusVars, xhrs>>

\* The effect of DashboardPage: fetchHistoryCounts() and setInterval(..., 30000)
DashboardPage_mount ==
    /\ DashboardPage_shown
    /\ ~effectsRun
    /\ effectsRun' = TRUE
    /\ medicalService_getHistory("dashboard", TRUE)
    /\ dashIsLoading' = TRUE
    /\ dashInterval' = "set"
    /\ lastOp' = [Op("dashboardMount") EXCEPT !.sent = TRUE]
    /\ UNCHANGED <<authVars, routeVars, loginVars, regVars, diagVars, analysisCount, histVars,
                   statusVars>>

\* The interval of DashboardPage fires: fetchHistoryCounts().  The callback does
\* not ask whether the page is mounted; a state setter of an unmounted page
\* does nothing.  A request of apiClient ends within its timeout of 20 s, so
\* 30 s after the page started its last fetch that fetch has ended or is
\* waiting for its emergency request (timeout 30 s)
DashboardPage_tick ==
    /\ dashInterval = "set"
    /\ \A i \in DOMAIN xhrs :
          (xhrs[i].op = "history" /\ IsOpen(xhrs[i]))
             => ~(calls[xhrs[i].call].by = "dashboard" /\ calls[xhrs[i].call].live)
    /\ medicalService_getHistory("dashboard", DashboardPage_shown)
    /\ dashIsLoading' = IF DashboardPage_shown THEN TRUE ELSE dashIsLoading
    /\ lastOp' = [Op("dashboardTick") EXCEPT !.sent = TRUE]
    /\ UNCHANGED <<authVars, routeVars, loginVars, regVars, diagVars, effectsRun, analysisCount,
                   dashInterval, histVars, statusVars>>

\* ApiStatusIndicator.checkApiStatus: axios.get(`${API_URL}/test`, { timeout: 5000 })
ApiStatusIndicator_request(live) ==
    [Xhr("status", "/test", NoHeader, Undefined) EXCEPT !.timer = "none", !.live = live]

\* The effect of ApiStatusIndicator: checkApiStatus() and setInterval(checkApiStatus, 30000)
ApiStatusIndicator_mount ==
    /\ ApiStatusIndicator_shown
    /\ ~effectsRun
    /\ effectsRun' = TRUE
    /\ Len(xhrs) < MaxRequests
    /\ xhrs' = Append(xhrs, ApiStatusIndicator_request(TRUE))
    /\ status' = "loading"
    /\ statusInterval' = "set"
    /\ lastOp' = [Op("statusMount") EXCEPT !.sent = TRUE]
    /\ UNCHANGED <<authVars, routeVars, loginVars, regVars, diagVars, calls, histVars, dashVars>>

\* The interval of ApiStatusIndicator fires: checkApiStatus().  The check
\* before it has ended within its timeout of 5 s
ApiStatusIndicator_tick ==
    /\ statusInterval = "set"
    /\ \A i \in DOMAIN xhrs : (xhrs[i].op = "status" /\ IsOpen(xhrs[i])) => ~xhrs[i].live
    /\ Len(xhrs) < MaxRequests
    /\ xhrs' = Append(xhrs, ApiStatusIndicator_request(ApiStatusIndicator_shown))
    /\ status' = IF ApiStatusIndicator_shown THEN "loading" ELSE status
    /\ lastOp' = [Op("statusTick") EXCEPT !.sent = TRUE]
    /\ UNCHANGED <<authVars, routeVars, loginVars, regVars, diagVars, calls, effectsRun,
                   statusInterval, histVars, dashVars>>

\* ApiStatusIndicator.checkApiStatus after its await: status 200, another 2xx
\* status, or the catch block
StatusRequestEnds ==
    /\ \E i \in DOMAIN xhrs, outcome \in {"online", "error", "offline"} :
          /\ xhrs[i].op = "status"
          /\ IsOpen(xhrs[i])
          /\ xhrs' = [xhrs EXCEPT ![i] = Settled(xhrs[i], [resolved |-> outcome # "offline"])]
          /\ status' = IF xhrs[i].live THEN outcome ELSE status
    /\ lastOp' = Op("statusRequestEnds")
    /\ UNCHANGED <<authVars, routeVars, loginVars, regVars, diagVars, calls, effectsRun,
                   statusInterval, histVars, dashVars>>

-----------------------------------------------------------------------------
(* The session specification: auth context, routing, login and logout *)

StoredSessions ==
    { [k \in {JWT_STORAGE_KEY, USER_STORAGE_KEY} |-> NoItem] }
    \cup { authService_login_store([k \in {JWT_STORAGE_KEY, USER_STORAGE_KEY} |-> NoItem],
                                   [token |-> t, user |-> u]) :
               t \in Tokens, u \in Users \cup {Undefined} }

Init ==
    /\ localStorage \in StoredSessions
    /\ currentUser = Null
    /\ loading = TRUE
    /\ authMounted = FALSE
    /\ path \in ProtectedPaths \cup {"/", "/login"}
    /\ locState = NoState
    /\ view = App(path, currentUser, loading)
    /\ loginIsLoading = FALSE
    /\ loginError = ""
    /\ successMessage = ""
    /\ regIsLoading = FALSE
    /\ regError = ""
    /\ regForm = EmptyForm
    /\ uploadedImage = Null
    /\ imageFile = Null
    /\ analysisResults = Null
    /\ isAnalyzing = FALSE
    /\ diagError = ""
    /\ readers = <<>>
    /\ calls = <<>>
    /\ effectsRun = FALSE
    /\ analyses = <<>>
    /\ imgSrc = <<>>
    /\ histLoading = TRUE
    /\ histError = Null
    /\ analysisCount = 0
    /\ dashIsLoading = TRUE
    /\ dashInterval = "none"
    /\ status = "loading"
    /\ statusInterval = "none"
    /\ xhrs = <<>>
    /\ lastOp = Op("init")

Next ==
    \/ AuthProvider_mount
    \/ DashboardLayout_handleLogout
    \/ ProfilePage_signOut
    \/ ProtectedRoute_navigate
    \/ ClickLink
    \/ LoginPage_handleSubmit
    \/ LoginXhrLoad
    \/ LoginXhrError
    \/ LoginXhrTimeout
    \/ LoginTimer

Spec == Init /\ [][Next]_vars

-----------------------------------------------------------------------------
(* The registration specification: the register page, loaded at /register *)

InitRegister ==
    /\ localStorage \in StoredSessions
    /\ currentUser = Null
    /\ loading = TRUE
    /\ authMounted = FALSE
    /\ path = "/register"
    /\ locState = NoState
    /\ view = App(path, currentUser, loading)
    /\ loginIsLoading = FALSE
    /\ loginError = ""
    /\ successMessage = ""
    /\ regIsLoading = FALSE
    /\ regError = ""
    /\ regForm = EmptyForm
    /\ uploadedImage = Null
    /\ imageFile = Null
    /\ analysisResults = Null
    /\ isAnalyzing = FALSE
    /\ diagError = ""
    /\ readers = <<>>
    /\ calls = <<>>
    /\ effectsRun = FALSE
    /\ analyses = <<>>
    /\ imgSrc = <<>>
    /\ histLoading = TRUE
    /\ histError = Null
    /\ analysisCount = 0
    /\ dashIsLoading = TRUE
    /\ dashInterval = "none"
    /\ status = "loading"
    /\ statusInterval = "none"
    /\ xhrs = <<>>
    /\ lastOp = Op("init")

NextRegister ==
    \/ AuthProvider_mount
    \/ ClickLink
    \/ LoginPage_effect
    \/ RegisterPage_onChange
    \/ RegisterPage_handleSubmit
    \/ RegisterXhrLoad
    \/ RegisterXhrError
    \/ RegisterXhrTimeout
    \/ RegisterTimer

SpecRegister == InitRegister /\ [][NextRegister]_vars

-----------------------------------------------------------------------------
(* The diagnosis specification: the diagnosis page, loaded at /diagnosis *)

InitDiagnosis ==
    /\ localStorage \in StoredSessions
    /\ currentUser = Null
    /\ loading = TRUE
    /\ authMounted = FALSE
    /\ path = "/diagnosis"
    /\ locState = NoState
    /\ view = App(path, currentUser, loading)
    /\ loginIsLoading = FALSE
    /\ loginError = ""
    /\ successMessage = ""
    /\ regIsLoading = FALSE
    /\ regError = ""
    /\ regForm = EmptyForm
    /\ uploadedImage = Null
    /\ imageFile = Null
    /\ analysisResults = Null
    /\ isAnalyzing = FALSE
    /\ diagError = ""
    /\ readers = <<>>
    /\ calls = <<>>
    /\ effectsRun = FALSE
    /\ analyses = <<>>
    /\ imgSrc = <<>>
    /\ histLoading = TRUE
    /\ histError = Null
    /\ analysisCount = 0
    /\ dashIsLoading = TRUE
    /\ dashInterval = "none"
    /\ status = "loading"
    /\ statusInterval = "none"
    /\ xhrs = <<>>
    /\ lastOp = Op("init")

NextDiagnosis ==
    \/ AuthProvider_mount
    \/ ProtectedRoute_navigate
    \/ ClickLink
    \/ DiagnosisPage_handleImageUpload
    \/ FileReader_onloadend
    \/ DiagnosisPage_handleAnalyze
    \/ AnalyzeXhrLoad
    \/ AnalyzeXhrError
    \/ AnalyzeXhrTimeout
    \/ DiagnosisPage_handleReset

SpecDiagnosis == InitDiagnosis /\ [][NextDiagnosis]_vars

-----------------------------------------------------------------------------
(* The submit specification: the login and the register page with their    *)
(* 15 s timers.  A timer that was started fires: setTimeout is never       *)
(* cancelled by either page.  Nothing is assumed of the server.  The user  *)
(* stays on the page until a registration or a login succeeds.            *)

InitSubmit ==
    /\ localStorage \in StoredSessions
    /\ currentUser = Null
    /\ loading = TRUE
    /\ authMounted = FALSE
    /\ path \in {"/login", "/register"}
    /\ locState = NoState
    /\ view = App(path, currentUser, loading)
    /\ loginIsLoading = FALSE
    /\ loginError = ""
    /\ successMessage = ""
    /\ regIsLoading = FALSE
    /\ regError = ""
    /\ regForm = EmptyForm
    /\ uploadedImage = Null
    /\ imageFile = Null
    /\ analysisResults = Null
    /\ isAnalyzing = FALSE
    /\ diagError = ""
    /\ readers = <<>>
    /\ calls = <<>>
    /\ effectsRun = FALSE
    /\ analyses = <<>>
    /\ imgSrc = <<>>
    /\ histLoading = TRUE
    /\ histError = Null
    /\ analysisCount = 0
    /\ dashIsLoading = TRUE
    /\ dashInterval = "none"
    /\ status = "loading"
    /\ statusInterval = "none"
    /\ xhrs = <<>>
    /\ lastOp = Op("init")

NextSubmit ==
    \/ AuthProvider_mount
    \/ LoginPage_effect
    \/ LoginPage_handleSubmit
    \/ LoginXhrLoad
    \/ LoginXhrError
    \/ LoginXhrTimeout
    \/ LoginTimer
    \/ RegisterPage_onChange
    \/ RegisterPage_handleSubmit
    \/ RegisterXhrLoad
    \/ RegisterXhrError
    \/ RegisterXhrTimeout
    \/ RegisterTimer

SpecSubmit ==
    InitSubmit /\ [][NextSubmit]_vars /\ WF_vars(LoginTimer) /\ WF_vars(RegisterTimer)

-----------------------------------------------------------------------------
(* The API client specification: its operations invoked one after another, *)
(* with arguments of every kind, by a signed-in or signed-out caller       *)

InitApi ==
    /\ localStorage \in StoredSessions
    /\ currentUser = Null
    /\ loading = TRUE
    /\ authMounted = FALSE
    /\ path = "/"
    /\ locState = NoState
    /\ view = App(path, currentUser, loading)
    /\ loginIsLoading = FALSE
    /\ loginError = ""
    /\ successMessage = ""
    /\ regIsLoading = FALSE
    /\ regError = ""
    /\ regForm = EmptyForm
    /\ uploadedImage = Null
    /\ imageFile = Null
    /\ analysisResults = Null
    /\ isAnalyzing = FALSE
    /\ diagError = ""
    /\ readers = <<>>
    /\ calls = <<>>
    /\ effectsRun = FALSE
    /\ analyses = <<>>
    /\ imgSrc = <<>>
    /\ histLoading = TRUE
    /\ histError = Null
    /\ analysisCount = 0
    /\ dashIsLoading = TRUE
    /\ dashInterval = "none"
    /\ status = "loading"
    /\ statusInterval = "none"
    /\ xhrs = <<>>
    /\ lastOp = Op("init")

NextApi ==
    \/ authService_forgotPassword
    \/ authService_resetPassword
    \/ PasswordRequestEnds
    \/ medicalService_getHistory_direct
    \/ HistoryRequestEnds
    \/ EmergencyHistoryRequestEnds
    \/ medicalService_getAnalysisDetails
    \/ DetailsRequestEnds

SpecApi == InitApi /\ [][NextApi]_vars

-----------------------------------------------------------------------------
(* The pages specification: the app is opened at the login page, the history *)
(* page or the dashboard; the user moves between the pages, refreshes the   *)
(* history and logs out, while the intervals of the pages fire              *)

InitPages ==
    /\ localStorage \in StoredSessions
    /\ currentUser = Null
    /\ loading = TRUE
    /\ authMounted = FALSE
    /\ path \in {"/login", "/history", "/dashboard"}
    /\ locState = NoState
    /\ view = App(path, currentUser, loading)
    /\ loginIsLoading = FALSE
    /\ loginError = ""
    /\ successMessage = ""
    /\ regIsLoading = FALSE
    /\ regError = ""
    /\ regForm = EmptyForm
    /\ uploadedImage = Null
    /\ imageFile = Null
    /\ analysisResults = Null
    /\ isAnalyzing = FALSE
    /\ diagError = ""
    /\ readers = <<>>
    /\ calls = <<>>
    /\ effectsRun = FALSE
    /\ analyses = <<>>
    /\ imgSrc = <<>>
    /\ histLoading = TRUE
    /\ histError = Null
    /\ analysisCount = 0
    /\ dashIsLoading = TRUE
    /\ dashInterval = "none"
    /\ status = "loading"
    /\ statusInterval = "none"
    /\ xhrs = <<>>
    /\ lastOp = Op("init")

NextPages ==
    \/ AuthProvider_mount
    \/ ProtectedRoute_navigate
    \/ ClickLink
    \/ DashboardLayout_handleLogout
    \/ HistoryPage_mount
    \/ HistoryPage_fetchHistory
    \/ HistoryPage_img_onError
    \/ DashboardPage_mount
    \/ DashboardPage_tick
    \/ HistoryRequestEnds
    \/ EmergencyHistoryRequestEnds
    \/ ApiStatusIndicator_mount
    \/ ApiStatusIndicator_tick
    \/ StatusRequestEnds

SpecPages == InitPages /\ [][NextPages]_vars

-----------------------------------------------------------------------------
(* The redirect specification: the app is opened at a protected path or at  *)
(* the registration page; a visitor who is not signed in is sent to the     *)
(* login page, a registration leads there with a message, and logins       *)
(* follow.  The visitor follows no link: a page is left by a redirect, by a *)
(* login or a registration that succeeded, or by logging out                *)

InitRedirect ==
    /\ localStorage \in StoredSessions
    /\ currentUser = Null
    /\ loading = TRUE
    /\ authMounted = FALSE
    /\ path \in {"/history", "/profile", "/register"}
    /\ locState = NoState
    /\ view = App(path, currentUser, loading)
    /\ loginIsLoading = FALSE
    /\ loginError = ""
    /\ successMessage = ""
    /\ regIsLoading = FALSE
    /\ regError = ""
    /\ regForm = EmptyForm
    /\ uploadedImage = Null
    /\ imageFile = Null
    /\ analysisResults = Null
    /\ isAnalyzing = FALSE
    /\ diagError = ""
    /\ readers = <<>>
    /\ calls = <<>>
    /\ effectsRun = FALSE
    /\ analyses = <<>>
    /\ imgSrc = <<>>
    /\ histLoading = TRUE
    /\ histError = Null
    /\ analysisCount = 0
    /\ dashIsLoading = TRUE
    /\ dashInterval = "none"
    /\ status = "loading"
    /\ statusInterval = "none"
    /\ xhrs = <<>>
    /\ lastOp = Op("init")

NextRedirect ==
    \/ AuthProvider_mount
    \/ DashboardLayout_handleLogout
    \/ ProtectedRoute_navigate
    \/ LoginPage_effect
    \/ LoginPage_handleSubmit
    \/ LoginXhrLoad
    \/ LoginXhrError
    \/ LoginXhrTimeout
    \/ LoginTimer
    \/ RegisterPage_onChange
    \/ RegisterPage_handleSubmit
    \/ RegisterXhrLoad
    \/ RegisterXhrError
    \/ RegisterXhrTimeout
    \/ RegisterTimer

SpecRedirect == InitRedirect /\ [][NextRedirect]_vars

-----------------------------------------------------------------------------
(* Properties of the session specification Spec *)

\* C1: in the state right after AuthContext.logout() local storage holds neither
\* the token key nor the user key, currentUser is null and
\* authService.getCurrentUser() returns null.
C1_LogoutClearsSession ==
    lastOp.name = "logout" =>
        /\ ~localStorage[JWT_STORAGE_KEY].has
        /\ ~localStorage[USER_STORAGE_KEY].has
        /\ currentUser = Null
        /\ getCurrentUser(localStorage) = Null

\* A logout has just run; it was offered by a protected page, so a user was signed in.
C1_Witness == lastOp.name = "logout" /\ path = "/login" /\ Len(xhrs) > 0

\* C2: ProtectedRoute renders its children only when loading is false and
\* currentUser is non-null; with loading false and currentUser null it redirects
\* to /login with state.from the requested path; while loading it renders
\* neither children nor a redirect.
C2_RoutingGuard ==
    /\ view.kind = "children" => (path \in ProtectedPaths /\ ~loading /\ currentUser # Null)
    /\ (path \in ProtectedPaths /\ ~loading /\ currentUser = Null)
           => (view.kind = "redirect" /\ view.to = "/login" /\ view.from = path)
    /\ (path \in ProtectedPaths /\ loading) => view.kind = "spinner"

\* A signed-out visitor of /history is being redirected with from = /history.
C2_Witness ==
    /\ authMounted
    /\ path = "/history"
    /\ currentUser = Null
    /\ view = [kind |-> "redirect", to |-> "/login", from |-> "/history"]

OpenLogins == {i \in DOMAIN xhrs : xhrs[i].op = "login" /\ IsOpen(xhrs[i])}

\* C8 as stated: at most one login HTTP request is outstanding.
C8_OneLoginOutstanding == Cardinality(OpenLogins) <= 1

\* C8 amended: at most one outstanding login request has the mounted page still
\* waiting for it, and the page is then loading (Sign In disabled); any other
\* outstanding login request is one whose 15 s timer has fired or whose page
\* instance was left.
C8_OneLoginAwaited ==
    LET awaited == {i \in OpenLogins : xhrs[i].race = "pending" /\ xhrs[i].live}
    IN  /\ Cardinality(awaited) <= 1
        /\ awaited # {} => loginIsLoading
        /\ \A i \in OpenLogins \ awaited : xhrs[i].timer = "fired" \/ ~xhrs[i].live

\* Two login requests are outstanding: the page gave up on the first after 15 s
\* and is waiting for the second.
C8_Witness ==
    \E i, j \in OpenLogins :
        /\ i < j
        /\ xhrs[i].timer = "fired"
        /\ xhrs[j].race = "pending" /\ xhrs[j].live
        /\ loginIsLoading

\* C10: a login request that completes with a token after the 15 s timer won the
\* race still writes the token and the user to local storage and sets currentUser.
C10_LateLoginStillStores ==
    (lastOp.name = "loginLoad" /\ lastOp.late /\ lastOp.resolved /\ Truthy(lastOp.token)) =>
        /\ getItem(localStorage, JWT_STORAGE_KEY) = lastOp.token
        /\ getItem(localStorage, USER_STORAGE_KEY) = ToStr(JSONstringify(lastOp.user))
        /\ currentUser = lastOp.user

\* The page shows the time-out error of the race and has re-enabled Sign In, and
\* the request it gave up on has just signed the user in.
C10_Witness ==
    /\ lastOp.name = "loginLoad" /\ lastOp.late /\ lastOp.resolved
    /\ lastOp.token = "tok1" /\ lastOp.user = "u1"
    /\ path = "/login"
    /\ loginError = "Login request timed out. Please try again."
    /\ ~loginIsLoading
    /\ currentUser = "u1"
    /\ getItem(localStorage, JWT_STORAGE_KEY) = "tok1"

-----------------------------------------------------------------------------
(* Properties of the registration specification SpecRegister *)

\* C3: RegisterPage.handleSubmit sends a registration request only when the email
\* matches EMAIL_REGEX, password equals confirmPassword and password has at
\* least 6 characters; otherwise it sets an error, sends nothing and leaves
\* isLoading false.
C3_RegisterValidation ==
    lastOp.name = "registerSubmit" =>
        LET valid == /\ EMAIL_REGEX(regForm.email)
                     /\ regForm.password = regForm.confirmPassword
                     /\ Len(regForm.password) >= 6
        IN  /\ lastOp.sent => valid
            /\ ~valid => (regError # "" /\ ~lastOp.sent /\ ~regIsLoading)

\* A submit with a well-formed email and a 5-character password was refused.
C3_Witness ==
    /\ lastOp.name = "registerSubmit"
    /\ EMAIL_REGEX(regForm.email)
    /\ Len(regForm.password) = 5
    /\ regError = "Password must be at least 6 characters"
    /\ ~lastOp.sent

-----------------------------------------------------------------------------
(* Properties of the diagnosis specification SpecDiagnosis *)

\* C4: Upload rejects non-image files.  Whenever handleImageUpload is given a
\* file whose MIME type does not begin with "image/", it sets the error
\* 'Please select an image file (JPEG, PNG)', does not make the file the
\* imageFile and starts no preview read.
C4_RejectsNonImage ==
    [][ (lastOp'.name = "upload" /\ lastOp'.file \in FileNames)
        => LET f == lastOp'.file
               type == file_type(f)
           IN  ~(Len(type) >= 6 /\ SubSeq(type, 1, 6) = "image/")
               => /\ diagError' = "Please select an image file (JPEG, PNG)"
                  /\ imageFile' # f \/ imageFile = f
                  /\ readers' = readers ]_vars

\* C5 as stated: handleImageUpload rejects a file exactly when its size is
\* greater than 10*1024*1024 bytes; a rejection sets 'File size exceeds 10MB
\* limit' and leaves imageFile, uploadedImage and analysisResults unchanged,
\* and a file that is not rejected becomes imageFile with a preview read started.
C5_RejectsExactlyOver10MB ==
    [][ (lastOp'.name = "upload" /\ lastOp'.file \in FileNames)
        => LET f == lastOp'.file
           IN  IF file_size(f) > 10 * 1024 * 1024
               THEN /\ diagError' = "File size exceeds 10MB limit"
                    /\ UNCHANGED <<imageFile, uploadedImage, analysisResults, readers>>
               ELSE /\ imageFile' = f
                    /\ readers' = Append(readers, f) ]_vars

\* C5 amended: a file whose MIME type passes the type check of the page (the
\* type contains "image") is rejected exactly when its size is greater than
\* 10*1024*1024 bytes; the rejection sets 'File size exceeds 10MB limit' and
\* leaves imageFile, uploadedImage and analysisResults unchanged, and a file of
\* at most that size becomes imageFile with a preview read started.  A file
\* that fails the type check is rejected with the type error whatever its size,
\* and leaves the same state unchanged.
C5_ImageRejectedExactlyOver10MB ==
    [][ (lastOp'.name = "upload" /\ lastOp'.file \in FileNames)
        => LET f == lastOp'.file
           IN  IF ~Includes(file_type(f), "image")
               THEN /\ diagError' = "Please select an image file (JPEG, PNG)"
                    /\ UNCHANGED <<imageFile, uploadedImage, analysisResults, readers>>
               ELSE IF file_size(f) > 10 * 1024 * 1024
               THEN /\ diagError' = "File size exceeds 10MB limit"
                    /\ UNCHANGED <<imageFile, uploadedImage, analysisResults, readers>>
               ELSE /\ diagError' = ""
                    /\ imageFile' = f
                    /\ readers' = Append(readers, f)
                    /\ UNCHANGED <<uploadedImage, analysisResults>> ]_vars

\* An image over the limit was just rejected while an image of exactly
\* 10*1024*1024 bytes, accepted before, is still the imageFile and the preview
C5_Witness ==
    /\ lastOp.name = "upload"
    /\ lastOp.file = "c.png"
    /\ diagError = "File size exceeds 10MB limit"
    /\ imageFile = "a.png"
    /\ file_size(imageFile) = 10 * 1024 * 1024
    /\ uploadedImage = "data:a.png"

\* C6: every request sent for a user action carries the stored token.  Right
\* after analyzeImage has sent its request, the request's Authorization header
\* is 'Bearer <token>' when a token is stored, and absent when none is.
C6_RequestsCarryToken ==
    (lastOp.name = "analyze" /\ lastOp.sent)
        => xhrs[Len(xhrs)].auth = apiClient_interceptor(localStorage)

\* C7: emergency analysis is a fallback.  Every request to
\* /api/ml/emergency-analyze follows a request that sent the same image to
\* /api/ml/analyze and has failed.
C7_EmergencyIsFallback ==
    \A i \in DOMAIN xhrs :
        Includes(xhrs[i].url, "/api/ml/emergency-analyze")
            => \E j \in 1..(i - 1) :
                  /\ xhrs[j].url = "/api/ml/analyze"
                  /\ xhrs[j].file = xhrs[i].file
                  /\ xhrs[j].state = "rejected"

OpenAnalyzes == {i \in DOMAIN xhrs : xhrs[i].op = "analyze" /\ IsOpen(xhrs[i])}

\* C9 as stated: at most one analyze request is outstanding at any time, and
\* while one is outstanding the Analyze button of the diagnosis page is disabled.
C9_OneAnalyzeOutstanding ==
    /\ Cardinality(OpenAnalyzes) <= 1
    /\ (OpenAnalyzes # {} /\ DiagnosisPage_shown)
           => AnalyzeButton_disabled(uploadedImage, isAnalyzing)

\* C9 amended: at most one analyze request started by the page instance that
\* is mounted is outstanding at any time, and while it is outstanding that page
\* is analyzing and its Analyze button is disabled, whatever Remove and Change
\* Image did in between.  (A request started before the page was left stays
\* outstanding, and the page opened again can start another.)
C9_OneAnalyzeAwaited ==
    LET awaited == {i \in OpenAnalyzes : xhrs[i].live}
    IN  /\ Cardinality(awaited) <= 1
        /\ awaited # {}
              => /\ DiagnosisPage_shown
                 /\ isAnalyzing
                 /\ AnalyzeButton_disabled(uploadedImage, isAnalyzing)

\* During an analysis the user changed the image and its preview has loaded:
\* only isAnalyzing keeps the button disabled
C9_Witness ==
    /\ lastOp.name = "loadend"
    /\ Truthy(uploadedImage)
    /\ \E i \in OpenAnalyzes : xhrs[i].live /\ xhrs[i].file # imageFile

-----------------------------------------------------------------------------
(* Further properties of the session specification Spec *)

\* C13: the auth context is synced from local storage at mount.  Once the
\* mount effect of AuthProvider has run, loading is false, currentUser is the
\* user stored under the user key, or null when nothing is stored there, and
\* no HTTP request has been made.
C13_MountSyncsFromStorage ==
    lastOp.name = "mount"
        => /\ loading = FALSE
           /\ currentUser = IF localStorage[USER_STORAGE_KEY].has
                            THEN JSONparse(localStorage[USER_STORAGE_KEY].text)
                            ELSE Null
           /\ xhrs = <<>>

\* C19: timeouts get the friendly message.  Whenever a login attempt of the
\* page shown ends because of a timeout (the 15 s timer of the race fires, or
\* the request's own 30 s timeout), the error of the page becomes 'Connection
\* to server timed out. Please check your internet connection and try again.'
C19_TimeoutsGetFriendlyMessage ==
    [][ (/\ lastOp'.name \in {"loginTimer", "loginXhrTimeout"}
         /\ loginIsLoading
         /\ ~loginIsLoading'
         /\ path' = path)
        => loginError' = "Connection to server timed out. Please check your internet connection and try again." ]_vars

-----------------------------------------------------------------------------
(* Properties of the submit specification SpecSubmit *)

\* C20: the submit button never stays disabled indefinitely.  Whenever the
\* login page or the register page is loading, it eventually is not loading
\* any more, whatever the server does, even if it never answers.
C20_LoadingEnds ==
    /\ loginIsLoading ~> ~loginIsLoading
    /\ regIsLoading ~> ~regIsLoading

\* The server has not answered the login request, still open, and the timer
\* of the race has ended the loading of the page shown
C20_Witness ==
    /\ lastOp.name = "loginTimer"
    /\ path = "/login"
    /\ ~loginIsLoading
    /\ loginError = "Login request timed out. Please try again."
    /\ \A i \in DOMAIN xhrs : IsOpen(xhrs[i])

-----------------------------------------------------------------------------
(* Properties of the API client specification SpecApi *)

\* The requests that invocation k of an operation has sent, by their position in the log
RequestsOf(k) == { i \in DOMAIN xhrs : xhrs[i].call = k }

\* C18: forgotPassword called with an email that EMAIL_REGEX does not match
\* rejects with 'Please enter a valid email address', resetPassword called with
\* a password of fewer than 6 characters rejects with 'Password must be at
\* least 6 characters', and neither of the two sends a request
C18_ValidationRejectsWithOwnMessage ==
    \A k \in DOMAIN calls :
       /\ (calls[k].op = "forgotPassword" /\ ~EMAIL_REGEX(calls[k].arg))
             => /\ calls[k].state = "rejected"
                /\ calls[k].value.message = "Please enter a valid email address"
                /\ RequestsOf(k) = {}
       /\ (calls[k].op = "resetPassword" /\ Len(calls[k].arg) < 6)
             => /\ calls[k].state = "rejected"
                /\ calls[k].value.message = "Password must be at least 6 characters"
                /\ RequestsOf(k) = {}

C16_FallbackOrder ==
    /\ \A k \in DOMAIN calls :
          calls[k].op = "getHistory"
             => \E i \in RequestsOf(k) :
                   /\ xhrs[i].url = "/api/ml/history"
                   /\ \A j \in RequestsOf(k) : i <= j
    /\ \A j \in DOMAIN xhrs :
          xhrs[j].op = "emergency-history"
             => \E i \in 1..(j - 1) :
                   /\ xhrs[i].call = xhrs[j].call
                   /\ xhrs[i].url = "/api/ml/history"
                   /\ xhrs[i].state = "rejected"

C16_Witness ==
    \E j \in DOMAIN xhrs :
       /\ xhrs[j].op = "emergency-history"
       /\ Includes(xhrs[j].url, "/api/ml/emergency-history")
       /\ IsOpen(xhrs[j])
       /\ calls[xhrs[j].call].state = "pending"

\* C17: the promise of getHistory never rejects, and when both of its requests
\* have failed it has resolved to status 'error', no analyses and count 0
C17_GetHistoryNeverRejects ==
    \A k \in DOMAIN calls :
       calls[k].op = "getHistory"
          => /\ calls[k].state # "rejected"
             /\ (\A i \in RequestsOf(k) : ~IsOpen(xhrs[i])) => calls[k].state = "resolved"
             /\ (Cardinality(RequestsOf(k)) = 2
                    /\ \A i \in RequestsOf(k) : xhrs[i].state = "rejected")
                   => /\ calls[k].state = "resolved"
                      /\ calls[k].value.status = "error"
                      /\ calls[k].value.hasAnalyses
                      /\ calls[k].value.analyses = <<>>
                      /\ calls[k].value.count = 0

C17_Witness ==
    \E k \in DOMAIN calls :
       /\ calls[k].op = "getHistory"
       /\ Cardinality(RequestsOf(k)) = 2
       /\ \A i \in RequestsOf(k) : xhrs[i].state = "rejected"
       /\ calls[k].value.status = "error"

-----------------------------------------------------------------------------
(* Properties of the pages specification SpecPages *)

\* The checks ApiStatusIndicator has started and the fetches DashboardPage has started
StatusChecks == { i \in DOMAIN xhrs : xhrs[i].op = "status" }
DashboardFetches == { k \in DOMAIN calls : calls[k].by = "dashboard" }

\* C12: ApiStatusIndicator and DashboardPage start one check or fetch when they
\* mount and one at each tick of their interval, only while they are mounted;
\* once they are unmounted their interval is cleared and nothing more is started
C12_PollingStopsOnUnmount ==
    [][/\ lastOp'.name \in {"statusMount", "statusTick"}
             => Cardinality(StatusChecks') = Cardinality(StatusChecks) + 1
       /\ lastOp'.name \in {"dashboardMount", "dashboardTick"}
             => Cardinality(DashboardFetches') = Cardinality(DashboardFetches) + 1
       /\ StatusChecks' # StatusChecks
             => /\ ApiStatusIndicator_shown'
                /\ statusInterval' = "set"
                /\ lastOp'.name \in {"statusMount", "statusTick"}
       /\ DashboardFetches' # DashboardFetches
             => /\ DashboardPage_shown'
                /\ dashInterval' = "set"
                /\ lastOp'.name \in {"dashboardMount", "dashboardTick"}
       /\ ~ApiStatusIndicator_shown' => statusInterval' = "none"
       /\ ~DashboardPage_shown' => dashInterval' = "none"]_vars

C12_Witness ==
    /\ path = "/register"
    /\ dashInterval = "none"
    /\ statusInterval = "none"
    /\ \E k \in DashboardFetches : ~calls[k].live
    /\ \E i \in StatusChecks : ~xhrs[i].live

\* C14: every entry of the history has an image whose src is not empty: an
\* entry without image_url gets the placeholder data URI, and an image that
\* fails to load gets the same placeholder
C14_EntriesHaveImage ==
    [][/\ Len(imgSrc') = Len(analyses')
       /\ \A i \in DOMAIN imgSrc' : Truthy(imgSrc'[i])
       /\ \A k \in DOMAIN calls :
             (/\ calls[k].by = "history"
              /\ calls[k].live
              /\ calls[k].state = "pending"
              /\ calls'[k].state = "resolved"
              /\ calls'[k].value.hasAnalyses)
                => /\ Len(analyses') = Len(calls'[k].value.analyses)
                   /\ \A i \in DOMAIN analyses' :
                         IF Truthy(calls'[k].value.analyses[i])
                         THEN analyses'[i] = calls'[k].value.analyses[i]
                         ELSE analyses'[i] = fallbackImageUrl /\ imgSrc'[i] = fallbackImageUrl
       /\ lastOp'.name = "imgError"
             => /\ imgSrc' # imgSrc
                /\ \A i \in DOMAIN imgSrc' :
                      imgSrc'[i] # imgSrc[i] => imgSrc'[i] = fallbackImageUrl]_vars

C14_Witness ==
    /\ HistoryPage_shown
    /\ Len(imgSrc) = 2
    /\ analyses[1] = "/uploads/1.png"
    /\ imgSrc[1] = fallbackImageUrl
    /\ analyses[2] = fallbackImageUrl
    /\ imgSrc[2] = fallbackImageUrl

\* C15: when both requests of getHistory have failed, HistoryPage shows an
\* error message that is not empty and is no longer loading
C15_HistoryErrorShown ==
    \A k \in DOMAIN calls :
       (/\ calls[k].by = "history"
        /\ calls[k].live
        /\ calls[k].state # "pending"
        /\ Cardinality(RequestsOf(k)) = 2
        /\ \A i \in RequestsOf(k) : xhrs[i].state = "rejected"
        /\ \A j \in DOMAIN calls : j > k => calls[j].by # "history")
          => /\ Truthy(histError)
             /\ ~histLoading

-----------------------------------------------------------------------------
(* Properties of the redirect specification SpecRedirect *)

\* C21 as stated: the promise of a login that resolved is followed by a
\* navigation to location.state.from or, without it, to /dashboard, and a
\* login that failed by none
C21_LoginNavigatesBack ==
    [][\A i \in DOMAIN xhrs :
          (xhrs[i].op = "login" /\ IsOpen(xhrs[i]) /\ ~IsOpen(xhrs'[i]))
             => IF xhrs'[i].state = "resolved"
                THEN path' = Or(xhrs[i].from, "/dashboard")
                ELSE path' = path]_vars

\* C21: a login that resolves while LoginPage.handleSubmit still awaits it
\* navigates to the path ProtectedRoute sent the visitor from, or to /dashboard
\* when there is none; the from value is the one of the location when the
\* form was submitted, and clearing the message leaves it in the location; a
\* login that failed, or one that resolves after the 15 s timer has ended the
\* wait, does not navigate
C21_AwaitedLoginNavigatesBack ==
    [][/\ \A i \in DOMAIN xhrs :
             (xhrs[i].op = "login" /\ IsOpen(xhrs[i]) /\ ~IsOpen(xhrs'[i]))
                => IF xhrs'[i].state = "resolved" /\ xhrs[i].race = "pending"
                   THEN path' = Or(xhrs[i].from, "/dashboard")
                   ELSE path' = path
       /\ \A i \in DOMAIN xhrs' :
             (xhrs'[i].op = "login" /\ xhrs'[i].live /\ xhrs'[i].race = "pending")
                => path' = "/login"
       /\ (lastOp'.name = "loginSubmit" /\ lastOp'.sent)
             => xhrs'[Len(xhrs')].from = locState.from
       /\ lastOp'.name = "redirect" => (path' = "/login" /\ locState'.from = path)
       /\ lastOp'.name = "loginEffect" => locState'.from = locState.from]_vars

C21_Witness ==
    /\ lastOp.name = "loginLoad"
    /\ lastOp.resolved
    /\ ~lastOp.late
    /\ path = "/history"
    /\ view.kind = "children"
    /\ \E i \in DOMAIN xhrs : xhrs[i].op = "login" /\ xhrs[i].state = "resolved"

-----------------------------------------------------------------------------
(* Further properties of the diagnosis specification SpecDiagnosis *)

\* C22: when the read of an accepted image ends, the preview becomes the data
\* of that image (null when the read failed) and the analysis results become
\* null, so that no results of an earlier image are shown with it
C22_NewImageResetsResults ==
    [][lastOp'.name = "loadend"
          => /\ analysisResults' = Null
             /\ \E i \in DOMAIN readers :
                   /\ readers' = SubSeq(readers, 1, i - 1) \o SubSeq(readers, i + 1, Len(readers))
                   /\ uploadedImage' \in {"data:" \o readers[i], Null}]_vars

C22_Witness ==
    /\ DiagnosisPage_shown
    /\ lastOp.name = "loadend"
    /\ uploadedImage = "data:drawing.odi"
    /\ analysisResults = Null
    /\ \E i \in DOMAIN xhrs :
          xhrs[i].op = "analyze" /\ xhrs[i].file = "a.png" /\ xhrs[i].state = "resolved"

\* C23: the results shown are those the analyze request for the current
\* imageFile returned
C23_ResultsBelongToImage ==
    Truthy(analysisResults)
       => /\ Truthy(imageFile)
          /\ analysisResults = "analysis of " \o imageFile

\* C24: a preview is shown only with an imageFile, and it is the data of that file
C24_PreviewMatchesFile ==
    Truthy(uploadedImage)
       => /\ Truthy(imageFile)
          /\ uploadedImage = "data:" \o imageFile

-----------------------------------------------------------------------------
(* Further properties of the session specification Spec *)

\* C25: whenever currentUser is not null the token and the user object are in
\* localStorage, and whenever LoginPage has navigated after a login a token is
\* in localStorage
C25_AuthenticatedViewHasSession ==
    /\ Truthy(currentUser)
          => /\ Truthy(getItem(localStorage, JWT_STORAGE_KEY))
             /\ JSONparse(ToStr(getItem(localStorage, USER_STORAGE_KEY))) = currentUser
    /\ (lastOp.name = "loginLoad" /\ lastOp.resolved /\ ~lastOp.late)
          => Truthy(getItem(localStorage, JWT_STORAGE_KEY))

-----------------------------------------------------------------------------
(* Further properties of the pages specification SpecPages *)

\* C26: when no fetch of the mounted DashboardPage is outstanding, analysisCount
\* is the number of analyses returned to the fetch it started last
C26_CounterShowsNewest ==
    LET mine == { k \in DashboardFetches : calls[k].live }
    IN  (DashboardPage_shown /\ mine # {} /\ \A k \in mine : calls[k].state # "pending")
           => \E k \in mine :
                 /\ \A j \in mine : j <= k
                 /\ analysisCount = IF calls[k].value.hasAnalyses
                                    THEN Len(calls[k].value.analyses) ELSE 0

====
